---- MODULE Spec2Model ----
(***************************************************************************)
(* Verification model of the Wavefront OBJ/MTL parser of kb10uy/derky.     *)
(*                                                                         *)
(* Two parser variants live in the repository:                             *)
(*   - src/src/wavefront_obj/parser.rs  (complete; "the parser" below)     *)
(*   - src/weavy_crab/src/parser.rs     (the rewrite; prefixed wc_ below)  *)
(*                                                                         *)
(* Encoding conventions                                                    *)
(*   Option<T>      None == <<>>, Some(x) == <<x>>                         *)
(*   String tokens  sequences of one-character strings ("1/2" is           *)
(*                  <<"1","/","2">>), so that split and parse are computed *)
(*   usize          an integer read as two's complement: the value         *)
(*                  2^64 - k (0 < k small) is represented by -k; ULt is    *)
(*                  the unsigned order                                     *)
(*   HashMap        a function whose DOMAIN is the key set                 *)
(***************************************************************************)
EXTENDS Integers, Sequences, FiniteSets, TLC

(***************************************************************************)
(* Bounds of the model.                                                    *)
(***************************************************************************)
MaxLines == 4        \* OBJ lines per file
MaxIndex == 2        \* largest vertex index written in a plain `f` line
MaxMtlLines == 3     \* lines per included MTL stream
MaxIncludes == 2     \* `mtllib` lines per file (SpecMtl)
MaxFullLines == 3    \* OBJ lines per file when every kind of line occurs (SpecFull)
MaxWcLines == 2      \* OBJ lines per file read by the weavy_crab parser (SpecWc)
MaxTriFaces == 3     \* faces converted into one vertex/index buffer pair (SpecTri)
MaxFaceLen == 4      \* largest number of vertices of a converted face (SpecTri)
MaxMaterials == 2    \* materials of a parsed file handed to a model build (SpecBuild)
MaxGroupFaces == 3   \* faces of a group handed to a model build (SpecBuild)
MaxExtraNext == 2    \* Visit::next calls after the iterator is exhausted (SpecBuild)
MaxNamedGroups == 2  \* groups of a parse result built by from_obj (SpecGroups)
MaxPushes == 17      \* update_luminance calls (SpecEnv)
MaxVaried == 3       \* leading update_luminance calls whose argument varies (SpecEnv)
MaxCalls == 3        \* invocations of the event callback (SpecLoop)
MaxFrames == 2       \* frames drawn (SpecRender)
MaxViews == 3        \* Textures created of one RenderTarget (SpecCom)
MaxRoundX == 70      \* largest width or height rounded (SpecRound)
MaxEntries == 2      \* entries of the dependency file (SpecMake)
MaxTime == 2         \* latest modification time of a file (SpecMake)
MaxSceneGroups == 2  \* vertex groups of the two models of a scene together (SpecRender)
MaxDirectional == 1  \* directional lights of a scene (SpecRender)
MaxPoint == 4        \* point lights of a scene (SpecRender)

(***************************************************************************)
(* Option, Result and error values.                                        *)
(***************************************************************************)
None == <<>>
Some(x) == <<x>>
IsSome(o) == Len(o) = 1
Unwrap(o) == o[1]

NoError == [kind |-> "none", found |-> 0, expected |-> 0]
NotEnoughData(f, e) == [kind |-> "NotEnoughData", found |-> f, expected |-> e]
InvalidFaceVertex == [kind |-> "InvalidFaceVertex", found |-> 0, expected |-> 0]
InvalidIndex == [kind |-> "InvalidIndex", found |-> 0, expected |-> 0]
PathNotFound == [kind |-> "PathNotFound", found |-> 0, expected |-> 0]
ParseError == [kind |-> "ParseError", found |-> 0, expected |-> 0]
IncludeError == [kind |-> "IncludeError", found |-> 0, expected |-> 0]

Ok(v) == [tag |-> "Ok", val |-> v, err |-> NoError]
Err(e) == [tag |-> "Err", val |-> <<>>, err |-> e]
Panic == [tag |-> "Panic", val |-> <<>>, err |-> NoError]

(***************************************************************************)
(* String primitives: str::split, str::parse::<usize>, str::starts_with.   *)
(***************************************************************************)
Digits == <<"0", "1", "2", "3", "4", "5", "6", "7", "8", "9">>
IsDigit(c) == \E d \in 1..10 : Digits[d] = c
DigitValue(c) == (CHOOSE d \in 1..10 : Digits[d] = c) - 1

RECURSIVE SplitFrom(_, _, _)
SplitFrom(s, sep, cur) ==
    IF s = <<>> THEN <<cur>>
    ELSE IF Head(s) = sep THEN <<cur>> \o SplitFrom(Tail(s), sep, <<>>)
    ELSE SplitFrom(Tail(s), sep, Append(cur, Head(s)))

\* str::split(sep): always at least one part; adjacent separators give "".
Split(s, sep) == SplitFrom(s, sep, <<>>)

RECURSIVE DecimalValue(_)
DecimalValue(s) ==
    IF s = <<>> THEN 0
    ELSE DecimalValue(SubSeq(s, 1, Len(s) - 1)) * 10 + DigitValue(s[Len(s)])

\* s.parse::<usize>(): an empty or non-digit string is a ParseIntError.
ParseUsize(s) ==
    IF s /= <<>> /\ \A i \in 1..Len(s) : IsDigit(s[i])
    THEN Ok(DecimalValue(s))
    ELSE Err(ParseError)

StartsWith(s, prefix) ==
    /\ Len(s) >= Len(prefix)
    /\ SubSeq(s, 1, Len(prefix)) = prefix

\* Unsigned order on usize values in the two's-complement reading.
ULt(a, b) ==
    IF a >= 0 /\ b >= 0 THEN a < b
    ELSE IF a < 0 /\ b < 0 THEN a < b
    ELSE b < 0

(***************************************************************************)
(* parse_face of src/src/wavefront_obj/parser.rs.                          *)
(* overflow_checks is the build's overflow-checks setting: `parsed -       *)
(* offset` on usize panics when it is on (debug) and wraps when it is off  *)
(* (release).                                                              *)
(***************************************************************************)

\* The try_fold closure body for one subtoken s and its offset.
ParseSubtoken(s, offset, overflow_checks) ==
    IF s = <<>> THEN Ok(None)
    ELSE LET parsed == ParseUsize(s) IN
         IF parsed.tag = "Err" THEN Err(ParseError)
         ELSE IF parsed.val < offset /\ overflow_checks THEN Panic
         ELSE IF parsed.val - offset = 0 THEN Err(InvalidIndex)
         ELSE Ok(Some(parsed.val - offset))

\* split('/').zip(offsets.iter()): pairs stop at the shorter of the two.
ZipLen(parts, offsets) == IF Len(parts) < Len(offsets) THEN Len(parts) ELSE Len(offsets)

RECURSIVE FoldSubtokens(_, _, _, _, _)
FoldSubtokens(parts, offsets, i, v, overflow_checks) ==
    IF i > ZipLen(parts, offsets) THEN Ok(v)
    ELSE LET r == ParseSubtoken(parts[i], offsets[i], overflow_checks) IN
         IF r.tag /= "Ok" THEN r
         ELSE FoldSubtokens(parts, offsets, i + 1, Append(v, r.val), overflow_checks)

\* One face-vertex token to one FaceIndexPair <<v, vt, vn>>: the `match indices.len()`.
ParseFaceVertex(vertex, offsets, overflow_checks) ==
    LET indices == FoldSubtokens(Split(vertex, "/"), offsets, 1, <<>>, overflow_checks) IN
    IF indices.tag /= "Ok" THEN indices
    ELSE IF Len(indices.val) = 1
         THEN IF IsSome(indices.val[1])
              THEN Ok(<<Unwrap(indices.val[1]), None, None>>)
              ELSE Err(InvalidIndex)
    ELSE IF Len(indices.val) = 3
         THEN IF IsSome(indices.val[1])
              THEN Ok(<<Unwrap(indices.val[1]), indices.val[2], indices.val[3]>>)
              ELSE Err(InvalidIndex)
    ELSE Err(InvalidFaceVertex)

RECURSIVE ParseFaceFrom(_, _, _, _, _)
ParseFaceFrom(vertices, offsets, i, index_pairs, overflow_checks) ==
    IF i > Len(vertices) THEN Ok(index_pairs)
    ELSE LET r == ParseFaceVertex(vertices[i], offsets, overflow_checks) IN
         IF r.tag /= "Ok" THEN r
         ELSE ParseFaceFrom(vertices, offsets, i + 1, Append(index_pairs, r.val),
                            overflow_checks)

parse_face(index_offsets, vertices, overflow_checks) ==
    ParseFaceFrom(vertices, index_offsets, 1, <<>>, overflow_checks)

(***************************************************************************)
(* parse_face of src/weavy_crab/src/parser.rs: indices are stored 0-based, *)
(* `v - 1 - offset` is computed on usize.                                  *)
(***************************************************************************)
WcSub(v, offset, overflow_checks) ==
    IF v - 1 - offset < 0 /\ overflow_checks THEN Panic ELSE Ok(v - 1 - offset)

\* indices.next() for the uv and normal positions.
WcOptionalIndex(parts, i, offset, overflow_checks) ==
    IF i > Len(parts) \/ parts[i] = <<>> THEN Ok(None)
    ELSE LET parsed == ParseUsize(parts[i]) IN
         IF parsed.tag = "Err" THEN Err(ParseError)
         ELSE LET d == WcSub(parsed.val, offset, overflow_checks) IN
              IF d.tag /= "Ok" THEN d ELSE Ok(Some(d.val))

WcParseFaceVertex(vertex, offsets, overflow_checks) ==
    LET parts == Split(vertex, "/")
        first == ParseUsize(parts[1])
    IN  IF parts[1] = <<>> THEN Err(InvalidFaceVertex)
        ELSE IF first.tag = "Err" THEN Err(ParseError)
        ELSE LET vi == WcSub(first.val, offsets[1], overflow_checks)
                 uv == WcOptionalIndex(parts, 2, offsets[2], overflow_checks)
                 nm == WcOptionalIndex(parts, 3, offsets[3], overflow_checks)
             IN  IF vi.tag /= "Ok" THEN vi
                 ELSE IF uv.tag /= "Ok" THEN uv
                 ELSE IF nm.tag /= "Ok" THEN nm
                 ELSE Ok(<<vi.val, uv.val, nm.val>>)

RECURSIVE WcParseFaceFrom(_, _, _, _, _)
WcParseFaceFrom(vertices, offsets, i, index_pairs, overflow_checks) ==
    IF i > Len(vertices) THEN Ok(index_pairs)
    ELSE LET r == WcParseFaceVertex(vertices[i], offsets, overflow_checks) IN
         IF r.tag /= "Ok" THEN r
         ELSE WcParseFaceFrom(vertices, offsets, i + 1, Append(index_pairs, r.val),
                              overflow_checks)

wc_parse_face(vertices, vertex_offset, uv_offset, normal_offset, overflow_checks) ==
    WcParseFaceFrom(vertices, <<vertex_offset, uv_offset, normal_offset>>, 1, <<>>,
                    overflow_checks)

(***************************************************************************)
(* take_single / take_vec2 / take_vec3 of src/src/wavefront_obj/parser.rs. *)
(* A numeric token is modelled by its value (a sequence of digits); any    *)
(* other token fails to parse.                                             *)
(***************************************************************************)
ParseNumber(s) == ParseUsize(s)

take_single(it) ==
    IF Len(it) < 1 THEN Err(NotEnoughData(0, 1))
    ELSE ParseNumber(it[1])

take_vec2(it) ==
    IF Len(it) < 1 THEN Err(NotEnoughData(0, 2))
    ELSE IF Len(it) < 2 THEN Err(NotEnoughData(1, 2))
    ELSE LET a == ParseNumber(it[1])
             b == ParseNumber(it[2])
         IN  IF a.tag /= "Ok" THEN a
             ELSE IF b.tag /= "Ok" THEN b
             ELSE Ok(<<a.val, b.val>>)

take_vec3(it) ==
    IF Len(it) < 1 THEN Err(NotEnoughData(0, 3))
    ELSE IF Len(it) < 2 THEN Err(NotEnoughData(1, 3))
    ELSE IF Len(it) < 3 THEN Err(NotEnoughData(2, 3))
    ELSE LET a == ParseNumber(it[1])
             b == ParseNumber(it[2])
             c == ParseNumber(it[3])
         IN  IF a.tag /= "Ok" THEN a
             ELSE IF b.tag /= "Ok" THEN b
             ELSE IF c.tag /= "Ok" THEN c
             ELSE Ok(<<a.val, b.val, c.val>>)

(***************************************************************************)
(* take_single / take_vec2 / take_vec3 of src/weavy_crab/src/parser.rs:    *)
(* each token is taken and parsed before the next one is taken.            *)
(***************************************************************************)
\* it.next().ok_or_else(..).and_then(parse) for the k-th token.
WcTakeNth(it, k, found, expected) ==
    IF Len(it) < k THEN Err(NotEnoughData(found, expected))
    ELSE ParseNumber(it[k])

wc_take_single(it) == WcTakeNth(it, 1, 0, 1)

wc_take_vec2(it) ==
    LET a == WcTakeNth(it, 1, 0, 2) IN
    IF a.tag /= "Ok" THEN a
    ELSE LET b == WcTakeNth(it, 2, 1, 2) IN
         IF b.tag /= "Ok" THEN b ELSE Ok(<<a.val, b.val>>)

wc_take_vec3(it) ==
    LET a == WcTakeNth(it, 1, 0, 2) IN
    IF a.tag /= "Ok" THEN a
    ELSE LET b == WcTakeNth(it, 2, 0, 2) IN
         IF b.tag /= "Ok" THEN b
         ELSE LET c == WcTakeNth(it, 3, 0, 2) IN
              IF c.tag /= "Ok" THEN c ELSE Ok(<<a.val, b.val, c.val>>)

(***************************************************************************)
(* Lines.  A line is the sequence of its whitespace-separated tokens; the  *)
(* empty sequence is a blank line, a first token starting with "#" is a    *)
(* comment.  keyword is the first token, data the rest.                    *)
(***************************************************************************)
IsSkipped(line) == IF line = <<>> THEN TRUE ELSE StartsWith(line[1], <<"#">>)
Keyword(line) == line[1]
Data(line) == Tail(line)

\* data.get(0).unwrap_or(&"")
FirstOrEmpty(data) == IF Len(data) >= 1 THEN data[1] ELSE <<>>

\* data.get(0).map(|&s| s.to_owned())
FirstOpt(data) == IF Len(data) >= 1 THEN Some(data[1]) ELSE None

KwNewmtl == <<"n", "e", "w", "m", "t", "l">>
KwIllum == <<"i", "l", "l", "u", "m">>
KwMapPrefix == <<"m", "a", "p", "_">>
KwMtllib == <<"m", "t", "l", "l", "i", "b">>
KwUsemtl == <<"u", "s", "e", "m", "t", "l">>

\* HashMap::insert
MapInsert(m, k, v) == [x \in (DOMAIN m) \cup {k} |-> IF x = k THEN v ELSE m[x]]
EmptyMap == <<>>
MapLen(m) == Cardinality(DOMAIN m)

(***************************************************************************)
(* MTL side of src/src/wavefront_obj/parser.rs: MtlBuffer,                 *)
(* commit_material, process_mtl_line, parse_mtl.                           *)
(***************************************************************************)
MtlBufferDefault == [name |-> <<>>, properties |-> EmptyMap, complete_materials |-> <<>>]

commit_material(mtl_buffer) ==
    [mtl_buffer EXCEPT
        !.complete_materials =
            IF MapLen(mtl_buffer.properties) > 0
            THEN Append(@, [name |-> mtl_buffer.name, properties |-> mtl_buffer.properties])
            ELSE @,
        !.properties = EmptyMap]

InsertProperty(mtl_buffer, k, tag, value) ==
    IF value.tag /= "Ok" THEN value
    ELSE Ok([mtl_buffer EXCEPT
                !.properties = MapInsert(@, k, [tag |-> tag, val |-> value.val])])

process_mtl_line(mtl_buffer, keyword, data) ==
    IF keyword = KwNewmtl
    THEN Ok([commit_material(mtl_buffer) EXCEPT !.name = FirstOrEmpty(data)])
    ELSE IF keyword = KwIllum
    THEN InsertProperty(mtl_buffer, KwIllum, "Integer", take_single(data))
    ELSE IF StartsWith(keyword, <<"K">>)
    THEN InsertProperty(mtl_buffer, keyword, "Vector", take_vec3(data))
    ELSE IF StartsWith(keyword, <<"N">>)
    THEN InsertProperty(mtl_buffer, keyword, "Float", take_single(data))
    ELSE IF StartsWith(keyword, KwMapPrefix)
    THEN InsertProperty(mtl_buffer, keyword, "Path", Ok(FirstOrEmpty(data)))
    ELSE Ok(mtl_buffer)

RECURSIVE ParseMtlFrom(_, _, _)
ParseMtlFrom(mtl_buffer, reader, i) ==
    IF i > Len(reader) THEN Ok(mtl_buffer)
    ELSE IF IsSkipped(reader[i]) THEN ParseMtlFrom(mtl_buffer, reader, i + 1)
    ELSE LET r == process_mtl_line(mtl_buffer, Keyword(reader[i]), Data(reader[i])) IN
         IF r.tag /= "Ok" THEN r
         ELSE ParseMtlFrom(r.val, reader, i + 1)

\* The read_line loop; when the reader is exhausted it returns Ok(()).
parse_mtl(mtl_buffer, reader) == ParseMtlFrom(mtl_buffer, reader, 1)

(***************************************************************************)
(* MTL side of src/weavy_crab/src/parser.rs: parse_mtl_line and parse_mtl  *)
(* with its local `materials`, `properties`, `name`.                       *)
(***************************************************************************)
RECURSIVE Unescape(_)
\* str::replace("\\\\", "\\"): two backslashes become one.
Unescape(s) ==
    IF Len(s) >= 2 /\ s[1] = "\\" /\ s[2] = "\\"
    THEN <<"\\">> \o Unescape(SubSeq(s, 3, Len(s)))
    ELSE IF s = <<>> THEN <<>>
    ELSE <<Head(s)>> \o Unescape(Tail(s))

WcCommand(kind, key, value) ==
    IF value.tag /= "Ok" THEN value
    ELSE Ok([kind |-> kind, key |-> key, val |-> value.val])

wc_parse_mtl_line(keyword, data) ==
    IF keyword = KwNewmtl
    THEN WcCommand("NewMaterial", keyword, Ok(FirstOrEmpty(data)))
    ELSE IF keyword = KwIllum
    THEN WcCommand("Integer", keyword, wc_take_single(data))
    ELSE IF StartsWith(keyword, <<"K">>)
    THEN WcCommand("Vector", keyword, wc_take_vec3(data))
    ELSE IF StartsWith(keyword, <<"N">>)
    THEN WcCommand("Float", keyword, wc_take_single(data))
    ELSE IF StartsWith(keyword, KwMapPrefix)
    THEN WcCommand("Path", keyword, Ok(Unescape(FirstOrEmpty(data))))
    ELSE WcCommand("Unknown", keyword, Ok(data))

\* The `match command` of parse_mtl on the locals st = [materials, properties, name].
WcApplyMtlCommand(st, command) ==
    IF command.kind = "NewMaterial"
    THEN [materials |-> Append(st.materials,
                               [name |-> st.name, properties |-> st.properties]),
          properties |-> EmptyMap,
          name |-> command.val]
    ELSE IF command.kind = "Unknown" THEN st
    ELSE [st EXCEPT !.properties =
              MapInsert(@, command.key, [tag |-> command.kind, val |-> command.val])]

RECURSIVE WcParseMtlFrom(_, _, _)
WcParseMtlFrom(st, reader, i) ==
    IF i > Len(reader) THEN Ok(st.materials)
    ELSE IF IsSkipped(reader[i]) THEN WcParseMtlFrom(st, reader, i + 1)
    ELSE LET c == wc_parse_mtl_line(Keyword(reader[i]), Data(reader[i])) IN
         IF c.tag /= "Ok" THEN c
         ELSE WcParseMtlFrom(WcApplyMtlCommand(st, c.val), reader, i + 1)

wc_parse_mtl(reader) ==
    WcParseMtlFrom([materials |-> <<>>, properties |-> EmptyMap, name |-> <<>>], reader, 1)

(***************************************************************************)
(* State.                                                                  *)
(***************************************************************************)
VARIABLES
    overflow_checks,   \* build setting, "on" (usize overflow panics) or "off" (wraps);
                       \* "unobserved" until an overflowing subtraction meets it
    lines,             \* the OBJ lines read so far (reader position)
    includes,          \* what include_function returned, one entry per invocation
    status,            \* "reading" | "returned" | "failed" | "panicked"
    error,             \* the Err value propagated by `?` when status = "failed"
    index_offsets,     \* ObjBuffer.index_offsets: <<vertex, uv, normal>>
    object_buffer,     \* ObjBuffer.object_buffer
    group_buffer,      \* ObjBuffer.group_buffer
    complete_objects,  \* ObjBuffer.complete_objects
    complete_groups,   \* ObjBuffer.complete_groups
    mtl_buffer,        \* the MtlBuffer of Parser::parse
    result,            \* Option<WavefrontObj> handed to the caller
    wc_lines,          \* weavy_crab: the OBJ lines read so far
    wc_includes,       \* weavy_crab: include_function's path and reader, per invocation
    wc_status,         \* weavy_crab: "reading" | "failed" | "panicked"
    wc_error,          \* weavy_crab: the propagated Err
    wc_materials       \* weavy_crab: the local `materials` of parse_impl

\* Vertex conversion (the vertex mappers of the model builders).
VARIABLES
    tri_mapper,        \* which conversion loop runs; "none" before the first face
    tri_faces,         \* vertex counts of the faces converted so far
    tri_vertices,      \* vertices.len()
    tri_indices,       \* the index list `indices`
    tri_status         \* "converting" | "panicked" | "aborted"

triVars == <<tri_mapper, tri_faces, tri_vertices, tri_indices, tri_status>>

\* Model build (Model::load_obj, Model::from_obj) and Model::visit.
VARIABLES
    build_variant,     \* "load_obj" | "from_obj"; "none" before a build starts
    build_wf,          \* the parsed WavefrontObj handed to the build
    build_status,      \* "idle" | "building" | "built" | "failed"
    build_materials,   \* `materials`: results of the material mapper so far
    vertex_groups,     \* `vertex_groups` / `face_groups`
    material_mapping,  \* `material_mapping`
    build_log,         \* mapper invocations in the order they happen
    visit_index,       \* Visit.index
    visit_terminated,  \* Visit.terminated
    visit_items,       \* what Visit::next has returned so far
    visit_status       \* "running" | "panicked"

buildVars == <<build_variant, build_wf, build_status, build_materials, vertex_groups,
               material_mapping, build_log>>
visitVars == <<visit_index, visit_terminated, visit_items, visit_status>>

\* Environment (luminance history) and the frame loop of main.
VARIABLES
    luminance,         \* Environment.luminance, slot 0 first
    pushed,            \* history: the arguments of update_luminance, in call order
    loop_variant,      \* which main runs; "none" before event_loop.run
    now,               \* the monotonic clock (Instant::now()), in nanoseconds
    last_at,           \* `last_at`
    frames,            \* the frames processed (tick, draw passes, present), with delta
    calls,             \* history: one record per invocation of the event callback
    control_flow       \* "Poll" | "WaitUntil" | "Exit"

envVars == <<luminance, pushed>>
loopVars == <<loop_variant, now, last_at, frames, calls, control_flow>>

\* One frame after another: tick, the three draw passes, present.
VARIABLES
    render_variant,    \* which Application draws; "none" before it is created
    scene,             \* the models' groups (has a material or not) and the lights
    frame_pc,          \* "idle" | "ready" | "ticked" | "geometry" | "lighting" | "composition" | "panicked"
    frame_no,          \* frames begun
    passes,            \* history: [frame, pass] per pass run
    draws,             \* history: one record per draw call
    ctx,               \* d3d11 immediate context: targets, depth, slots, blend
    lighting_acc,      \* lighting buffer: the colour it was cleared to, the lights added since
    cb_luminances,     \* d3d11: ViewMatrices.luminances as last written to cb_view
    next_luminance_buffer,    \* derky: the atomic counter buffer the composition shader adds to
    prev_luminance     \* derky: the uniform `prev_luminance`

renderVars == <<render_variant, scene, frame_pc, frame_no, passes, draws, ctx, lighting_acc,
                cb_luminances, next_luminance_buffer, prev_luminance>>
\* COM reference counting of a render target's texture.
VARIABLES
    com_refcount,      \* reference count of the ID3D11Texture2D
    com_freed,         \* the count has reached zero: the texture is destroyed
    com_holders,       \* holder 0 is the RenderTarget, 1.. the Textures: "none" | "alive" | "failed" | "dropped"
    com_log            \* history: the AddRef and Release calls, with the holder

comVars == <<com_refcount, com_freed, com_holders, com_log>>

\* The rounding helper of resize_to_power_of_2.
VARIABLES
    round_x,           \* the argument of the last call of round; 0 before the first
    round_out,         \* its result, as the exponent of the power of two returned
    round_status       \* "idle" | "returned" | "panicked"

roundVars == <<round_x, round_out, round_status>>

\* shake make.
VARIABLES
    make_input,        \* the depfile, the makefile outputs and the modification times
    make_compiled,     \* the outputs fxc.compile was run for, in order
    make_status        \* "idle" | "done"

makeVars == <<make_input, make_compiled, make_status>>
toolVars == <<comVars, roundVars, makeVars>>
lateVars == <<renderVars, toolVars>>
appVars == <<triVars, buildVars, visitVars, envVars, loopVars, lateVars>>

TriInit ==
    /\ tri_mapper = "none"
    /\ tri_faces = <<>>
    /\ tri_vertices = 0
    /\ tri_indices = <<>>
    /\ tri_status = "converting"

BuildInit ==
    /\ build_variant = "none"
    /\ build_wf = [objects |-> <<>>, materials |-> <<>>]
    /\ build_status = "idle"
    /\ build_materials = <<>>
    /\ vertex_groups = <<>>
    /\ material_mapping = <<>>
    /\ build_log = <<>>

VisitInit ==
    /\ visit_index = 0
    /\ visit_terminated = FALSE
    /\ visit_items = <<>>
    /\ visit_status = "running"

\* Environment::new: `luminance: [0.0; 16]`.
EnvInit ==
    /\ luminance = [i \in 1..16 |-> 0]
    /\ pushed = <<>>

\* `let mut last_at = Instant::now();` before event_loop.run.
LoopInit ==
    /\ loop_variant = "none"
    /\ now = 0
    /\ last_at = 0
    /\ frames = <<>>
    /\ calls = <<>>
    /\ control_flow = "Poll"

\* The state before Application::new: nothing is bound, the buffers are as created.
NoScene == [room |-> <<>>, model |-> <<>>, directional |-> 0, point |-> 0, image |-> FALSE]
NoSlots == [slot \in 0..5 |-> "null"]

RenderInit ==
    /\ render_variant = "none"
    /\ scene = NoScene
    /\ frame_pc = "idle"
    /\ frame_no = 0
    /\ passes = <<>>
    /\ draws = <<>>
    /\ ctx = [targets |-> <<>>, depth |-> "null", slots |-> NoSlots, blend |-> "default"]
    /\ lighting_acc = [clear |-> "as created", lights |-> <<>>]
    /\ cb_luminances = [i \in 1..16 |-> 0]
    /\ next_luminance_buffer = 0
    /\ prev_luminance = 0

\* No texture created yet; round not called yet; shake make not run yet.
ToolInit ==
    /\ com_refcount = 0
    /\ com_freed = FALSE
    /\ com_holders = [h \in 0..MaxViews |-> "none"]
    /\ com_log = <<>>
    /\ round_x = 0
    /\ round_out = 0
    /\ round_status = "idle"
    /\ make_input = [dependencies |-> <<>>, outputs |-> <<>>, system_now |-> 0]
    /\ make_compiled = <<>>
    /\ make_status = "idle"

AppInit == TriInit /\ BuildInit /\ VisitInit /\ EnvInit /\ LoopInit /\ RenderInit /\ ToolInit

objVars == <<overflow_checks, lines, includes, status, error, index_offsets, object_buffer,
             group_buffer, complete_objects, complete_groups, mtl_buffer, result>>
wcVars == <<wc_lines, wc_includes, wc_status, wc_error, wc_materials>>
earlyVars == <<objVars, wcVars, triVars, buildVars, visitVars, envVars, loopVars>>
vars == <<objVars, wcVars, appVars>>

GroupBufferDefault ==
    [name |-> None, material_name |-> None, vertices |-> <<>>, vertex_normals |-> <<>>,
     texture_uvs |-> <<>>, faces |-> <<>>]
ObjectBufferDefault == [name |-> None, groups |-> <<>>]

Init ==
    /\ overflow_checks = "unobserved"
    /\ lines = <<>>
    /\ includes = <<>>
    /\ status = "reading"
    /\ error = NoError
    /\ index_offsets = <<0, 0, 0>>
    /\ object_buffer = ObjectBufferDefault
    /\ group_buffer = GroupBufferDefault
    /\ complete_objects = <<>>
    /\ complete_groups = <<>>
    /\ mtl_buffer = MtlBufferDefault
    /\ result = None
    /\ wc_lines = <<>>
    /\ wc_includes = <<>>
    /\ wc_status = "reading"
    /\ wc_error = NoError
    /\ wc_materials = <<>>
    /\ AppInit

(***************************************************************************)
(* ObjBuffer::commit_group and ObjBuffer::commit_object, as functions of   *)
(* the ObjBuffer fields b = [index_offsets, object_buffer, group_buffer,   *)
(* complete_objects, complete_groups].                                     *)
(***************************************************************************)
\* commit_group without the `faces.len() > 0` test.
commit_group_unconditional(b) ==
    [b EXCEPT
        !.index_offsets = <<@[1] + Len(b.group_buffer.vertices),
                            @[2] + Len(b.group_buffer.texture_uvs),
                            @[3] + Len(b.group_buffer.vertex_normals)>>,
        !.complete_groups =
            Append(@, [name |-> b.group_buffer.name,
                       material_name |-> None,
                       vertices |-> b.group_buffer.vertices,
                       texture_uvs |-> b.group_buffer.texture_uvs,
                       normals |-> b.group_buffer.vertex_normals,
                       face_index_pairs |-> b.group_buffer.faces]),
        !.group_buffer = GroupBufferDefault]

\* commit_group that advances index_offsets only for groups it keeps.
commit_group_offsets_of_kept(b) ==
    [b EXCEPT
        !.index_offsets =
            IF Len(b.group_buffer.faces) > 0
            THEN <<@[1] + Len(b.group_buffer.vertices),
                   @[2] + Len(b.group_buffer.texture_uvs),
                   @[3] + Len(b.group_buffer.vertex_normals)>>
            ELSE @,
        !.complete_groups =
            IF Len(b.group_buffer.faces) > 0
            THEN Append(@, [name |-> b.group_buffer.name,
                            material_name |-> None,
                            vertices |-> b.group_buffer.vertices,
                            texture_uvs |-> b.group_buffer.texture_uvs,
                            normals |-> b.group_buffer.vertex_normals,
                            face_index_pairs |-> b.group_buffer.faces])
            ELSE @,
        !.group_buffer = GroupBufferDefault]

commit_group(b) ==
    [b EXCEPT
        !.index_offsets = <<@[1] + Len(b.group_buffer.vertices),
                            @[2] + Len(b.group_buffer.texture_uvs),
                            @[3] + Len(b.group_buffer.vertex_normals)>>,
        !.complete_groups =
            IF Len(b.group_buffer.faces) > 0
            THEN Append(@, [name |-> b.group_buffer.name,
                            material_name |-> None,
                            vertices |-> b.group_buffer.vertices,
                            texture_uvs |-> b.group_buffer.texture_uvs,
                            normals |-> b.group_buffer.vertex_normals,
                            face_index_pairs |-> b.group_buffer.faces])
            ELSE @,
        !.group_buffer = GroupBufferDefault]

commit_object(b) ==
    LET g == commit_group(b) IN
    [g EXCEPT
        !.complete_objects =
            IF Len(g.complete_groups) > 0
            THEN Append(@, [name |-> g.object_buffer.name, groups |-> g.complete_groups])
            ELSE @,
        !.complete_groups = IF Len(g.complete_groups) > 0 THEN <<>> ELSE @,
        !.object_buffer = ObjectBufferDefault]

ObjBuffer ==
    [index_offsets |-> index_offsets, object_buffer |-> object_buffer,
     group_buffer |-> group_buffer, complete_objects |-> complete_objects,
     complete_groups |-> complete_groups]

SetObjBuffer(b) ==
    /\ index_offsets' = b.index_offsets
    /\ object_buffer' = b.object_buffer
    /\ group_buffer' = b.group_buffer
    /\ complete_objects' = b.complete_objects
    /\ complete_groups' = b.complete_groups

bufVars == <<index_offsets, object_buffer, group_buffer, complete_objects, complete_groups>>

(***************************************************************************)
(* Parser::parse: the read_line loop.  Each action below is one iteration  *)
(* of the loop for one kind of line, process_obj_line included.            *)
(***************************************************************************)
\* The loop is still running and the reader has another line.
CanRead == status = "reading" /\ Len(lines) < MaxLines

\* An Err that is recorded while the loop goes on to the next line.
FailButContinue(e) ==
    /\ status' = status
    /\ error' = e
    /\ UNCHANGED <<bufVars, mtl_buffer, result>>

\* `?` on an Err: parse returns the error.
Fail(e) ==
    /\ status' = "failed"
    /\ error' = e
    /\ UNCHANGED <<bufVars, mtl_buffer, result>>

\* A panic unwinds out of parse.
Unwind ==
    /\ status' = "panicked"
    /\ UNCHANGED <<error, bufVars, mtl_buffer, result>>

Continue == UNCHANGED <<status, error, result>>

\* trimmed == "" || trimmed.starts_with('#') => continue
SkippedLine(line) ==
    /\ CanRead
    /\ IsSkipped(line)
    /\ lines' = Append(lines, line)
    /\ UNCHANGED <<overflow_checks, includes, status, error, bufVars, mtl_buffer, result,
                   wcVars, appVars>>

\* "mtllib": resolved is what include_function(path) returns.
MaterialLibrary(data, resolved) ==
    /\ CanRead
    /\ lines' = Append(lines, <<KwMtllib>> \o data)
    /\ IF Len(data) < 1
       THEN /\ Fail(PathNotFound)
            /\ UNCHANGED includes
       ELSE /\ includes' = Append(includes, [path |-> data[1], reader |-> resolved])
            /\ IF resolved.tag /= "Ok"
               THEN Fail(resolved.err)
               ELSE LET r == parse_mtl(mtl_buffer, resolved.val) IN
                    IF r.tag /= "Ok"
                    THEN Fail(r.err)
                    ELSE /\ mtl_buffer' = r.val
                         /\ Continue
                         /\ UNCHANGED bufVars
    /\ UNCHANGED <<overflow_checks, wcVars, appVars>>

\* "o"
ObjectLine(data) ==
    /\ CanRead
    /\ lines' = Append(lines, <<<<"o">>>> \o data)
    /\ SetObjBuffer([commit_object(ObjBuffer) EXCEPT !.object_buffer.name = FirstOpt(data)])
    /\ Continue
    /\ UNCHANGED <<overflow_checks, includes, mtl_buffer, wcVars, appVars>>

\* "g"
GroupLine(data) ==
    /\ CanRead
    /\ lines' = Append(lines, <<<<"g">>>> \o data)
    /\ SetObjBuffer([commit_group(ObjBuffer) EXCEPT !.group_buffer.name = FirstOpt(data)])
    /\ Continue
    /\ UNCHANGED <<overflow_checks, includes, mtl_buffer, wcVars, appVars>>

\* "usemtl"
UseMaterial(data) ==
    /\ CanRead
    /\ lines' = Append(lines, <<KwUsemtl>> \o data)
    /\ group_buffer' = [group_buffer EXCEPT !.material_name = FirstOpt(data)]
    /\ Continue
    /\ UNCHANGED <<overflow_checks, includes, index_offsets, object_buffer, complete_objects,
                   complete_groups, mtl_buffer, wcVars, appVars>>

\* "v"
Vertex(data) ==
    /\ CanRead
    /\ lines' = Append(lines, <<<<"v">>>> \o data)
    /\ LET r == take_vec3(data) IN
       IF r.tag /= "Ok"
       THEN Fail(r.err)
       ELSE /\ group_buffer' = [group_buffer EXCEPT !.vertices = Append(@, r.val)]
            /\ Continue
            /\ UNCHANGED <<index_offsets, object_buffer, complete_objects, complete_groups,
                           mtl_buffer>>
    /\ UNCHANGED <<overflow_checks, includes, wcVars, appVars>>

\* "vt"
TextureUv(data) ==
    /\ CanRead
    /\ lines' = Append(lines, <<<<"v", "t">>>> \o data)
    /\ LET r == take_vec2(data) IN
       IF r.tag /= "Ok"
       THEN Fail(r.err)
       ELSE /\ group_buffer' = [group_buffer EXCEPT !.texture_uvs = Append(@, r.val)]
            /\ Continue
            /\ UNCHANGED <<index_offsets, object_buffer, complete_objects, complete_groups,
                           mtl_buffer>>
    /\ UNCHANGED <<overflow_checks, includes, wcVars, appVars>>

\* Vec3::normalized for the axis-aligned vectors the model feeds to "vn".
Normalized(v) == <<IF v[1] = 0 THEN 0 ELSE 1, IF v[2] = 0 THEN 0 ELSE 1,
                   IF v[3] = 0 THEN 0 ELSE 1>>

\* "vn"
VertexNormal(data) ==
    /\ CanRead
    /\ lines' = Append(lines, <<<<"v", "n">>>> \o data)
    /\ LET r == take_vec3(data) IN
       IF r.tag /= "Ok"
       THEN Fail(r.err)
       ELSE /\ group_buffer' =
                  [group_buffer EXCEPT !.vertex_normals = Append(@, Normalized(r.val))]
            /\ Continue
            /\ UNCHANGED <<index_offsets, object_buffer, complete_objects, complete_groups,
                           mtl_buffer>>
    /\ UNCHANGED <<overflow_checks, includes, wcVars, appVars>>

\* The settings of the build that are consistent with what has been observed,
\* given that the next step overflows (or not).
BuildSettings(overflows) ==
    IF overflow_checks /= "unobserved" THEN {overflow_checks}
    ELSE IF overflows THEN {"on", "off"}
    ELSE {"unobserved"}

\* "f"
Face(data) ==
    /\ CanRead
    /\ lines' = Append(lines, <<<<"f">>>> \o data)
    /\ \E c \in BuildSettings(parse_face(index_offsets, data, TRUE).tag = "Panic") :
          /\ overflow_checks' = c
          /\ LET r == parse_face(index_offsets, data, c = "on") IN
             IF r.tag = "Panic" THEN Unwind
             ELSE IF r.tag = "Err" THEN Fail(r.err)
             ELSE /\ group_buffer' = [group_buffer EXCEPT !.faces = Append(@, r.val)]
                  /\ Continue
                  /\ UNCHANGED <<index_offsets, object_buffer, complete_objects,
                                 complete_groups, mtl_buffer>>
    /\ UNCHANGED <<includes, wcVars, appVars>>

ObjKeywords == {KwMtllib, <<"o">>, <<"g">>, KwUsemtl, <<"v">>, <<"v", "t">>, <<"v", "n">>,
                <<"f">>}

\* `_ => warn!(...)`
Unsupported(line) ==
    /\ CanRead
    /\ ~IsSkipped(line)
    /\ Keyword(line) \notin ObjKeywords
    /\ lines' = Append(lines, line)
    /\ UNCHANGED <<overflow_checks, includes, status, error, bufVars, mtl_buffer, result,
                   wcVars, appVars>>

\* read_size == 0: break, commit_object, Ok(WavefrontObj { .. }).
EndOfFile ==
    /\ status = "reading"
    /\ LET b == commit_object(ObjBuffer) IN
       /\ SetObjBuffer(b)
       /\ result' = Some([objects |-> b.complete_objects,
                          materials |-> mtl_buffer.complete_materials])
    /\ status' = "returned"
    /\ UNCHANGED <<overflow_checks, lines, includes, error, mtl_buffer, wcVars, appVars>>

(***************************************************************************)
(* src/weavy_crab/src/parser.rs: parse_obj_line, Parser::parse and         *)
(* Parser::parse_impl.                                                     *)
(***************************************************************************)
wc_parse_obj_line(keyword, data, checks) ==
    IF keyword = KwMtllib
    THEN WcCommand("MaterialLibrary", keyword, Ok(Unescape(FirstOrEmpty(data))))
    ELSE IF keyword = KwUsemtl
    THEN WcCommand("UseMaterial", keyword,
                   IF Len(data) >= 1 THEN Ok(data[1]) ELSE Err(NotEnoughData(0, 1)))
    ELSE IF keyword = <<"o">> THEN WcCommand("Object", keyword, Ok(FirstOpt(data)))
    ELSE IF keyword = <<"g">> THEN WcCommand("Group", keyword, Ok(FirstOpt(data)))
    ELSE IF keyword = <<"v">> THEN WcCommand("Vertex", keyword, wc_take_vec3(data))
    ELSE IF keyword = <<"v", "t">> THEN WcCommand("VertexUv", keyword, wc_take_vec2(data))
    ELSE IF keyword = <<"v", "n">> THEN WcCommand("VertexNormal", keyword, wc_take_vec3(data))
    ELSE IF keyword = <<"f">>
    THEN WcCommand("Face", keyword, wc_parse_face(data, 0, 0, 0, checks))
    ELSE WcCommand("Unknown", keyword, Ok(data))

WcCanRead == wc_status = "reading" /\ Len(wc_lines) < MaxWcLines

\* fetch_line skips blank lines and comments.
WcSkippedLine(line) ==
    /\ WcCanRead
    /\ IsSkipped(line)
    /\ wc_lines' = Append(wc_lines, line)
    /\ UNCHANGED <<objVars, appVars, wc_includes, wc_status, wc_error, wc_materials>>

\* ObjCommand::MaterialLibrary: reader is what include_function returns.
WcMaterialLibrary(data, reader) ==
    /\ WcCanRead
    /\ wc_lines' = Append(wc_lines, <<KwMtllib>> \o data)
    /\ LET c == wc_parse_obj_line(KwMtllib, data, TRUE)
           r == wc_parse_mtl(reader)
       IN  /\ wc_includes' = Append(wc_includes, [path |-> c.val.val, reader |-> reader])
           /\ IF r.tag /= "Ok"
              THEN /\ wc_status' = "failed"
                   /\ wc_error' = r.err
                   /\ UNCHANGED wc_materials
              ELSE /\ wc_materials' = r.val
                   /\ UNCHANGED <<wc_status, wc_error>>
    /\ UNCHANGED <<objVars, appVars>>

wcObjVars == <<lines, includes, status, error, index_offsets, object_buffer, group_buffer,
               complete_objects, complete_groups, mtl_buffer, result>>

\* Every other command: fetch_line's `?`, then `_ => warn!(..)`.
WcOtherLine(line) ==
    /\ WcCanRead
    /\ ~IsSkipped(line)
    /\ Keyword(line) /= KwMtllib
    /\ wc_lines' = Append(wc_lines, line)
    /\ \E s \in BuildSettings(wc_parse_obj_line(Keyword(line), Data(line), TRUE).tag
                              = "Panic") :
          /\ overflow_checks' = s
          /\ LET c == wc_parse_obj_line(Keyword(line), Data(line), s = "on") IN
             /\ wc_status' = IF c.tag = "Panic" THEN "panicked"
                             ELSE IF c.tag = "Err" THEN "failed" ELSE wc_status
             /\ wc_error' = IF c.tag = "Err" THEN c.err ELSE wc_error
    /\ UNCHANGED <<wcObjVars, appVars, wc_includes, wc_materials>>

\* fetch_line returns None: `WavefrontObj { materials, objects: todo!() }` panics.
WcEndOfFile ==
    /\ wc_status = "reading"
    /\ wc_status' = "panicked"
    /\ UNCHANGED <<objVars, appVars, wc_lines, wc_includes, wc_error, wc_materials>>

(***************************************************************************)
(* Inputs.                                                                 *)
(***************************************************************************)
\* The decimal token of a one-digit number.
Num(n) == <<Digits[n + 1]>>

\* All sequences over S of length lo..hi.
SeqsOf(S, lo, hi) == UNION {[1..n -> S] : n \in lo..hi}

\* The number of `v` lines among ls.
RECURSIVE CountVertexLines(_)
CountVertexLines(ls) ==
    IF ls = <<>> THEN 0
    ELSE CountVertexLines(Tail(ls))
         + (IF Head(ls) /= <<>> /\ Keyword(Head(ls)) = <<"v">> THEN 1 ELSE 0)

\* A well-formed `v` line; its x coordinate is the line's ordinal among the
\* `v` lines of the file, so that every declared position is distinguishable.
NextVertexData == {<<Num(CountVertexLines(lines) + 1), Num(0), Num(0)>>}

\* Plain `f` lines: no token, one token, or two tokens naming neighbouring
\* vertices in either order.
PlainFaceData ==
    {<<>>} \cup {<<Num(i)>> : i \in 1..MaxIndex}
           \cup {<<Num(i), Num(i + 1)>> : i \in 1..(MaxIndex - 1)}
           \cup {<<Num(i + 1), Num(i)>> : i \in 1..(MaxIndex - 1)}

NoName == <<>>
NameA == <<<<"a">>>>
NameB == <<<<"b">>>>

(***************************************************************************)
(* Spec: OBJ text made of `v`, `f`, `g` and `o` lines.                     *)
(***************************************************************************)
Next ==
    \/ \E d \in NextVertexData : Vertex(d)
    \/ \E d \in PlainFaceData : Face(d)
    \/ GroupLine(NoName)
    \/ ObjectLine(NameB)
    \/ EndOfFile

Spec == Init /\ [][Next]_vars

(***************************************************************************)
(* SpecMtl: OBJ text made of `mtllib` and `usemtl` lines; the resolver     *)
(* returns any MTL stream of up to MaxMtlLines lines, or fails.            *)
(***************************************************************************)
MtlNewA == <<KwNewmtl, <<"a">>>>
MtlNewB == <<KwNewmtl, <<"b">>>>
MtlKd == <<<<"K", "d">>, Num(1), Num(1), Num(1)>>
MtlKdShort == <<<<"K", "d">>, Num(1)>>
MtlNs == <<<<"N", "s">>, Num(5)>>
MtlIllum == <<KwIllum, Num(2)>>
MtlMapKd == <<<<"m", "a", "p", "_", "K", "d">>, <<"t", "\\", "\\", "p">>>>
MtlUnknown == <<<<"d">>, Num(1)>>
MtlComment == <<<<"#">>>>

MtlLineSet == {MtlNewA, MtlNewB, MtlKd, MtlKdShort}
MtlStreams == SeqsOf(MtlLineSet, 0, MaxMtlLines)
Resolved == {Ok(r) : r \in MtlStreams} \cup {Err(IncludeError)}

NextMtl ==
    \/ \E r \in Resolved : Len(lines) < MaxIncludes /\ MaterialLibrary(<<<<"m">>>>, r)
    \/ Len(lines) < MaxIncludes /\ MaterialLibrary(<<>>, Err(IncludeError))
    \/ EndOfFile

SpecMtl == Init /\ [][NextMtl]_vars

(***************************************************************************)
(* SpecFull: every kind of OBJ line, well-formed and malformed.            *)
(***************************************************************************)
Tok1 == <<"1">>
FullVertexData == {<<Tok1, Tok1, Tok1>>, <<Tok1>>, <<<<"x">>, Tok1, Tok1>>}
FullUvData == {<<Tok1, Tok1>>, <<Tok1>>}
FullNormalData == {<<Tok1, Num(0), Num(0)>>, <<>>}
RichFaceTokens ==
    {<<"1">>, <<"2">>, <<"0">>, <<"x">>,
     <<"1", "/", "1">>, <<"1", "/">>, <<"0", "/", "1">>,
     <<"1", "/", "1", "/", "1">>, <<"1", "/", "/", "1">>, <<"/", "1", "/", "1">>,
     <<"1", "/", "1", "/", "1", "/", "1">>, <<"1", "/", "/", "/">>}
RichFaceData == {<<t>> : t \in RichFaceTokens}
FullStreams ==
    {<<>>,
     <<MtlNewA, MtlKd, MtlNs, MtlIllum, MtlMapKd>>,
     <<MtlComment, MtlNewA, MtlKd, MtlUnknown, MtlNewB, MtlKd>>,
     <<MtlNewA, MtlKd, MtlKdShort, MtlNewB, MtlKd>>}
FullResolved == {Ok(r) : r \in FullStreams} \cup {Err(IncludeError)}
UnsupportedLine == <<<<"s">>, Tok1>>
CommentLine == <<<<"#", "c">>>>

FullStep ==
    \/ \E d \in FullVertexData : Vertex(d)
    \/ \E d \in FullUvData : TextureUv(d)
    \/ \E d \in FullNormalData : VertexNormal(d)
    \/ \E d \in RichFaceData : Face(d)
    \/ \E d \in {NoName, NameA} : GroupLine(d)
    \/ \E d \in {NoName, NameB} : ObjectLine(d)
    \/ \E d \in {NoName, NameA} : UseMaterial(d)
    \/ \E r \in FullResolved : MaterialLibrary(<<<<"m">>>>, r)
    \/ MaterialLibrary(<<>>, Err(IncludeError))
    \/ Unsupported(UnsupportedLine)
    \/ \E l \in {<<>>, CommentLine} : SkippedLine(l)

NextFull ==
    \/ Len(lines) < MaxFullLines /\ FullStep
    \/ EndOfFile

SpecFull == Init /\ [][NextFull]_vars

(***************************************************************************)
(* SpecWc: the weavy_crab parser over every kind of OBJ line.              *)
(***************************************************************************)
WcOtherLines ==
    {<<<<"v">>, Tok1, Tok1, Tok1>>, <<<<"v">>, Tok1>>, <<<<"f">>, <<"1">>>>,
     <<<<"f">>, <<"0">>>>, <<<<"f">>, <<"1", "/", "1">>>>, <<<<"g">>>>, <<<<"o">>>>,
     <<KwUsemtl>>, UnsupportedLine}

NextWc ==
    \/ \E r \in MtlStreams : WcMaterialLibrary(<<<<"m">>>>, r)
    \/ \E r \in MtlStreams : WcMaterialLibrary(<<>>, r)
    \/ \E l \in WcOtherLines : WcOtherLine(l)
    \/ \E l \in {<<>>, CommentLine} : WcSkippedLine(l)
    \/ WcEndOfFile

SpecWc == Init /\ [][NextWc]_vars

(***************************************************************************)
(* Iteration over a parse result (src/src/wavefront_obj/mod.rs):           *)
(* FaceVertices::next reads vertices[index_pair.0.get() - 1] and panics    *)
(* when that is outside the slice.                                         *)
(***************************************************************************)
InSlice(nz, slice) == nz >= 1 /\ nz <= Len(slice)

FaceVerticesNext(group, index_pair) ==
    IF /\ InSlice(index_pair[1], group.vertices)
       /\ IsSome(index_pair[2]) => InSlice(Unwrap(index_pair[2]), group.texture_uvs)
       /\ IsSome(index_pair[3]) => InSlice(Unwrap(index_pair[3]), group.normals)
    THEN Ok(<<group.vertices[index_pair[1]],
              IF IsSome(index_pair[2])
              THEN Some(group.texture_uvs[Unwrap(index_pair[2])]) ELSE None,
              IF IsSome(index_pair[3])
              THEN Some(group.normals[Unwrap(index_pair[3])]) ELSE None>>)
    ELSE Panic

(***************************************************************************)
(* What the OBJ text read so far says, computed from `lines` alone.        *)
(*   RefFold(ls)  walks the lines and cuts them at `g` and `o`:            *)
(*     objects  closed objects, each the sequence of its groups            *)
(*     groups   closed groups of the open object                           *)
(*     faces    token lists of the `f` lines of the open segment           *)
(*     first    number of `v` lines before the open segment                *)
(*     nverts   number of `v` lines of the open segment                    *)
(*   A closed segment is a group iff it has an `f` line; a closed object   *)
(*   is kept iff it has a group.                                           *)
(***************************************************************************)
RefEmpty == [objects |-> <<>>, groups |-> <<>>, faces |-> <<>>, first |-> 0, nverts |-> 0]

RefCloseGroup(acc) ==
    [acc EXCEPT
        !.groups = IF acc.faces /= <<>>
                   THEN Append(@, [faces |-> acc.faces, first |-> acc.first,
                                   nverts |-> acc.nverts])
                   ELSE @,
        !.faces = <<>>,
        !.first = acc.first + acc.nverts,
        !.nverts = 0]

RefCloseObject(acc) ==
    [acc EXCEPT
        !.objects = IF acc.groups /= <<>> THEN Append(@, acc.groups) ELSE @,
        !.groups = <<>>]

RefStep(acc, line) ==
    IF IsSkipped(line) THEN acc
    ELSE IF Keyword(line) = <<"v">> THEN [acc EXCEPT !.nverts = @ + 1]
    ELSE IF Keyword(line) = <<"f">> THEN [acc EXCEPT !.faces = Append(@, Data(line))]
    ELSE IF Keyword(line) = <<"g">> THEN RefCloseGroup(acc)
    ELSE IF Keyword(line) = <<"o">> THEN RefCloseObject(RefCloseGroup(acc))
    ELSE acc

RECURSIVE RefFold(_)
RefFold(ls) ==
    IF ls = <<>> THEN RefEmpty
    ELSE RefStep(RefFold(SubSeq(ls, 1, Len(ls) - 1)), ls[Len(ls)])

RefObjects(ls) == RefCloseObject(RefCloseGroup(RefFold(ls))).objects

\* The positions declared by the `v` lines of ls, in file order.
RECURSIVE Declared(_)
Declared(ls) ==
    IF ls = <<>> THEN <<>>
    ELSE LET l == ls[Len(ls)]
             before == Declared(SubSeq(ls, 1, Len(ls) - 1))
         IN  IF ~IsSkipped(l) /\ Keyword(l) = <<"v">>
             THEN Append(before, <<DecimalValue(l[2]), DecimalValue(l[3]),
                                   DecimalValue(l[4])>>)
             ELSE before

\* Face counts of groups, per object: the shape of a parse result.
ShapeOfGroups(groups) == [g \in 1..Len(groups) |-> Len(groups[g].face_index_pairs)]
ShapeOfObjects(objects) ==
    [o \in 1..Len(objects) |-> ShapeOfGroups(objects[o].groups)]
RefShapeOfGroups(groups) == [g \in 1..Len(groups) |-> Len(groups[g].faces)]
RefShape(objects) == [o \in 1..Len(objects) |-> RefShapeOfGroups(objects[o])]

Returned == status = "returned"
Objects == Unwrap(result).objects
Materials == Unwrap(result).materials

(***************************************************************************)
(* C3.  Commit rules.  At every point of a parse that has not failed, the   *)
(* groups committed to the open object are exactly the closed segments     *)
(* that hold a face, the objects committed to the root list are exactly    *)
(* the closed objects that hold a group, and the open accumulator holds    *)
(* the faces of the open segment; so in the returned result every Object   *)
(* has a Group, every Group has a face, and no segment with a face is      *)
(* missing.                                                                *)
(***************************************************************************)
C3_CommitRules ==
    /\ status = "reading" =>
          LET ref == RefFold(lines) IN
          /\ ShapeOfObjects(complete_objects) = RefShape(ref.objects)
          /\ ShapeOfGroups(complete_groups) = RefShapeOfGroups(ref.groups)
          /\ Len(group_buffer.faces) = Len(ref.faces)
    /\ Returned =>
          /\ ShapeOfObjects(Objects) = RefShape(RefObjects(lines))
          /\ \A o \in 1..Len(Objects) :
                /\ Len(Objects[o].groups) >= 1
                /\ \A g \in 1..Len(Objects[o].groups) :
                      Len(Objects[o].groups[g].face_index_pairs) >= 1

\* A returned parse with two objects whose text also has a `g` line.
C3_Witness ==
    /\ Returned
    /\ Len(Objects) = 2
    /\ \E i \in 1..Len(lines) : lines[i] = <<<<"g">>>>
    /\ Len(RefObjects(lines)) = 2

(***************************************************************************)
(* C4.  For text of `v`, `f`, `g`, `o` lines whose faces reference         *)
(* vertices declared in their own group, a returned parse has one face per *)
(* `f` line, in file order; iterating a face yields as many vertices as    *)
(* the line has tokens, and the j-th position is the one declared by the   *)
(* `v` line whose file-global ordinal is the j-th token.                   *)
(***************************************************************************)
IsPlainToken(t) == t /= <<>> /\ \A i \in 1..Len(t) : IsDigit(t[i])

\* Every token of every face of the reference group names a vertex of that group.
RefGroupWellFormed(rg) ==
    \A f \in 1..Len(rg.faces) : \A j \in 1..Len(rg.faces[f]) :
        /\ IsPlainToken(rg.faces[f][j])
        /\ DecimalValue(rg.faces[f][j]) > rg.first
        /\ DecimalValue(rg.faces[f][j]) <= rg.first + rg.nverts

OnlyGeometryLines(ls) ==
    \A i \in 1..Len(ls) :
        /\ ~IsSkipped(ls[i])
        /\ Keyword(ls[i]) \in {<<"v">>, <<"f">>, <<"g">>, <<"o">>}

WellFormed(ls) ==
    /\ OnlyGeometryLines(ls)
    /\ \A o \in 1..Len(RefObjects(ls)) : \A g \in 1..Len(RefObjects(ls)[o]) :
          RefGroupWellFormed(RefObjects(ls)[o][g])

FaceMatches(group, face, tokens, declared) ==
    /\ Len(face) = Len(tokens)
    /\ \A j \in 1..Len(tokens) :
          LET y == FaceVerticesNext(group, face[j]) IN
          /\ y.tag = "Ok"
          /\ y.val[1] = declared[DecimalValue(tokens[j])]

RaisedBy(line) ==
    IF IsSkipped(line) THEN Ok(<<>>)
    ELSE IF Keyword(line) \in {<<"v">>, <<"v", "n">>} THEN take_vec3(Data(line))
    ELSE IF Keyword(line) = <<"v", "t">> THEN take_vec2(Data(line))
    ELSE IF Keyword(line) = <<"f">>
    THEN parse_face(index_offsets, Data(line), overflow_checks' = "on")
    ELSE IF Keyword(line) = KwMtllib
    THEN IF Data(line) = <<>> THEN Err(PathNotFound)
         ELSE LET resolved == includes'[Len(includes')].reader IN
              IF resolved.tag /= "Ok" THEN resolved
              ELSE parse_mtl(mtl_buffer, resolved.val)
    ELSE Ok(<<>>)

C8_Step ==
    /\ status /= "failed"
    /\ (lines' /= lines /\ RaisedBy(lines'[Len(lines')]).tag = "Err") =>
          /\ status' = "failed"
          /\ error' = RaisedBy(lines'[Len(lines')]).err
    /\ status' = "failed" =>
          /\ result' = None
          /\ error'.kind \in {"NotEnoughData", "InvalidFaceVertex", "InvalidIndex",
                              "PathNotFound", "ParseError", "IncludeError"}

C8_ErrorsAbort == [][C8_Step]_vars

\* A parse that failed inside an included MTL stream after a first OBJ line.
C8_Witness ==
    /\ status = "failed"
    /\ error.kind = "NotEnoughData"
    /\ Len(lines) >= 2
    /\ Keyword(lines[Len(lines)]) = KwMtllib
    /\ Len(includes) >= 1
    /\ result = None

(***************************************************************************)
(* What an MTL stream says, computed from its lines alone: the names of    *)
(* the `newmtl` blocks that contain at least one property line, in order.  *)
(***************************************************************************)
IsPropertyLine(line) ==
    /\ ~IsSkipped(line)
    /\ \/ Keyword(line) = KwIllum
       \/ StartsWith(Keyword(line), <<"K">>)
       \/ StartsWith(Keyword(line), <<"N">>)
       \/ StartsWith(Keyword(line), KwMapPrefix)

IsNewmtlLine(line) == ~IsSkipped(line) /\ Keyword(line) = KwNewmtl

\* acc = [names, open, name, has]: closed blocks, whether a block is open,
\* its name, whether it has a property line.
RefMtlStep(acc, line) ==
    IF IsNewmtlLine(line)
    THEN [names |-> IF acc.open /\ acc.has THEN Append(acc.names, acc.name) ELSE acc.names,
          open |-> TRUE, name |-> FirstOrEmpty(Data(line)), has |-> FALSE]
    ELSE IF IsPropertyLine(line) THEN [acc EXCEPT !.has = TRUE]
    ELSE acc

RECURSIVE RefMtlFold(_)
RefMtlFold(stream) ==
    IF stream = <<>> THEN [names |-> <<>>, open |-> FALSE, name |-> <<>>, has |-> FALSE]
    ELSE RefMtlStep(RefMtlFold(SubSeq(stream, 1, Len(stream) - 1)), stream[Len(stream)])

RefBlockNames(stream) ==
    LET acc == RefMtlFold(stream) IN
    IF acc.open /\ acc.has THEN Append(acc.names, acc.name) ELSE acc.names

\* The block names of all streams included so far, in include order.
RECURSIVE RefAllBlockNames(_)
RefAllBlockNames(incs) ==
    IF incs = <<>> THEN <<>>
    ELSE RefAllBlockNames(SubSeq(incs, 1, Len(incs) - 1))
         \o (IF incs[Len(incs)].reader.tag = "Ok"
             THEN RefBlockNames(incs[Len(incs)].reader.val) ELSE <<>>)

CountName(names, n) == Cardinality({i \in 1..Len(names) : names[i] = n})
MaterialNames(materials) == [i \in 1..Len(materials) |-> materials[i].name]

(***************************************************************************)
(* C1.  In a returned parse every `newmtl` block of an included stream     *)
(* that has a property line, the last block of the stream included,        *)
(* appears in the materials list.                                          *)
(***************************************************************************)
C1_LastBlockCommitted ==
    Returned =>
        \A n \in {<<"a">>, <<"b">>} :
            CountName(MaterialNames(Materials), n)
                >= CountName(RefAllBlockNames(includes), n)

(***************************************************************************)
(* C2.  No material with zero properties is ever in the materials list     *)
(* built by parse_mtl (weavy_crab).                                        *)
(***************************************************************************)
C2_NoEmptyMaterial ==
    \A i \in 1..Len(wc_materials) : MapLen(wc_materials[i].properties) > 0

\* The same rule for MtlBuffer::commit_material of src/src/wavefront_obj/parser.rs.
C2_CommitMaterialNoEmpty ==
    \A i \in 1..Len(mtl_buffer.complete_materials) :
        MapLen(mtl_buffer.complete_materials[i].properties) > 0

(***************************************************************************)
(* C5.  An `f` line whose first faulty token is a vertex index that is     *)
(* zero or negative after the vertex offset is subtracted makes the parse  *)
(* fail with InvalidIndex: no panic, no wrapped index, no face.            *)
(***************************************************************************)
FirstPart(t) == Split(t, "/")[1]

NonPositiveIndexFirst(data, offsets) ==
    \E j \in 1..Len(data) :
        /\ IsPlainToken(FirstPart(data[j]))
        /\ DecimalValue(FirstPart(data[j])) <= offsets[1]
        /\ \A k \in 1..(j - 1) :
              /\ IsPlainToken(data[k])
              /\ DecimalValue(data[k]) > offsets[1]

ReadsFaceLine ==
    IF lines' = lines THEN FALSE
    ELSE IF IsSkipped(lines'[Len(lines')]) THEN FALSE
    ELSE Keyword(lines'[Len(lines')]) = <<"f">>

C5_Step ==
    (ReadsFaceLine /\ NonPositiveIndexFirst(Data(lines'[Len(lines')]), index_offsets)) =>
        /\ status' = "failed"
        /\ error' = InvalidIndex
        /\ group_buffer'.faces = group_buffer.faces

C5_NonPositiveIsInvalidIndex == [][C5_Step]_vars

(***************************************************************************)
(* C6.  In every committed group each face's vertex index is within the    *)
(* group's vertex list.                                                    *)
(***************************************************************************)
GroupIndicesValid(group) ==
    \A f \in 1..Len(group.face_index_pairs) :
        \A j \in 1..Len(group.face_index_pairs[f]) :
            InSlice(group.face_index_pairs[f][j][1], group.vertices)

C6_FaceIndicesInRange ==
    /\ \A g \in 1..Len(complete_groups) : GroupIndicesValid(complete_groups[g])
    /\ \A o \in 1..Len(complete_objects) :
          \A g \in 1..Len(complete_objects[o].groups) :
              GroupIndicesValid(complete_objects[o].groups[g])

(***************************************************************************)
(* C7.  A face-vertex token is accepted only if splitting it on `/` yields *)
(* exactly 1 or exactly 3 parts.                                           *)
(***************************************************************************)
C7_Step ==
    (ReadsFaceLine /\ status' = "reading") =>
        \A j \in 1..Len(Data(lines'[Len(lines')])) :
            Len(Split(Data(lines'[Len(lines')])[j], "/")) \in {1, 3}

C7_OnlyOneOrThreeParts == [][C7_Step]_vars

(***************************************************************************)
(* C9.  A later `mtllib` never discards materials contributed by an        *)
(* earlier one: the materials list only grows at its end.                  *)
(***************************************************************************)
IsPrefix(a, b) == Len(a) <= Len(b) /\ SubSeq(b, 1, Len(a)) = a

HasProperties(m) == MapLen(m.properties) > 0
WithProperties(ms) == SelectSeq(ms, HasProperties)

C9_Step ==
    wc_status' = "reading" =>
        IsPrefix(WithProperties(wc_materials), WithProperties(wc_materials'))

C9_LaterMtllibKeepsEarlier == [][C9_Step]_vars

\* The same rule for Parser::parse of src/src/wavefront_obj/parser.rs.
C9_MainStep ==
    IsPrefix(WithProperties(mtl_buffer.complete_materials),
             WithProperties(mtl_buffer'.complete_materials))
C9_MainKeepsEarlier == [][C9_MainStep]_vars

(***************************************************************************)
(* C10.  An `mtllib` line with no path token makes the parse fail with     *)
(* PathNotFound, and the include resolver is not invoked for that line.    *)
(***************************************************************************)
WcReadsBareMtllib == wc_lines' /= wc_lines /\ wc_lines'[Len(wc_lines')] = <<KwMtllib>>

C10_Step ==
    WcReadsBareMtllib =>
        /\ wc_status' = "failed"
        /\ wc_error' = PathNotFound
        /\ wc_includes' = wc_includes

C10_MtllibWithoutPath == [][C10_Step]_vars

\* The same rule for Parser::process_obj_line of src/src/wavefront_obj/parser.rs.
C10_MainStep ==
    (lines' /= lines /\ lines'[Len(lines')] = <<KwMtllib>>) =>
        /\ status' = "failed"
        /\ error' = PathNotFound
        /\ includes' = includes
C10_MainMtllibWithoutPath == [][C10_MainStep]_vars

(***************************************************************************)
(* C11.  A `v`, `vt` or `vn` line with k tokens, k less than the N its     *)
(* extractor needs (3, 2, 3), fails with NotEnoughData whose found is k    *)
(* and whose expected is N; with N or more tokens NotEnoughData is never   *)
(* reported.                                                               *)
(***************************************************************************)
NumbersNeeded(keyword) == IF keyword = <<"v", "t">> THEN 2 ELSE 3
NumberKeywords == {<<"v">>, <<"v", "t">>, <<"v", "n">>}

WcReadsNumberLine ==
    IF wc_lines' = wc_lines THEN FALSE
    ELSE IF IsSkipped(wc_lines'[Len(wc_lines')]) THEN FALSE
    ELSE Keyword(wc_lines'[Len(wc_lines')]) \in NumberKeywords

C11_Step ==
    WcReadsNumberLine =>
        LET line == wc_lines'[Len(wc_lines')]
            k == Len(Data(line))
            n == NumbersNeeded(Keyword(line))
        IN  IF k < n
            THEN wc_status' = "failed" /\ wc_error' = NotEnoughData(k, n)
            ELSE wc_error'.kind /= "NotEnoughData"

C11_NotEnoughDataCounts == [][C11_Step]_vars

\* The same rule for take_vec2 / take_vec3 of src/src/wavefront_obj/parser.rs.
ReadsNumberLine ==
    IF lines' = lines THEN FALSE
    ELSE IF IsSkipped(lines'[Len(lines')]) THEN FALSE
    ELSE Keyword(lines'[Len(lines')]) \in NumberKeywords

C11_MainStep ==
    ReadsNumberLine =>
        LET line == lines'[Len(lines')]
            k == Len(Data(line))
            n == NumbersNeeded(Keyword(line))
        IN  IF k < n
            THEN status' = "failed" /\ error' = NotEnoughData(k, n)
            ELSE error'.kind /= "NotEnoughData"

C11_MainNotEnoughDataCounts == [][C11_MainStep]_vars

(***************************************************************************)
(* What the OBJ text says about bound materials, computed from the lines   *)
(* alone: for every closed segment that holds an `f` line, the name given  *)
(* by the last `usemtl` line of that segment (None when it has none).      *)
(***************************************************************************)
RefMaterialEmpty == [names |-> <<>>, cur |-> None, hasface |-> FALSE]

RefMaterialClose(acc) ==
    [names |-> IF acc.hasface THEN Append(acc.names, acc.cur) ELSE acc.names,
     cur |-> None, hasface |-> FALSE]

RefMaterialStep(acc, line) ==
    IF IsSkipped(line) THEN acc
    ELSE IF Keyword(line) = KwUsemtl THEN [acc EXCEPT !.cur = FirstOpt(Data(line))]
    ELSE IF Keyword(line) = <<"f">> THEN [acc EXCEPT !.hasface = TRUE]
    ELSE IF Keyword(line) \in {<<"g">>, <<"o">>} THEN RefMaterialClose(acc)
    ELSE acc

RECURSIVE RefMaterialFold(_)
RefMaterialFold(ls) ==
    IF ls = <<>> THEN RefMaterialEmpty
    ELSE RefMaterialStep(RefMaterialFold(SubSeq(ls, 1, Len(ls) - 1)), ls[Len(ls)])

RefGroupMaterials(ls) == RefMaterialClose(RefMaterialFold(ls)).names

\* The bound material names of all groups of all objects, in order.
RECURSIVE GroupMaterials(_)
GroupMaterials(objects) ==
    IF objects = <<>> THEN <<>>
    ELSE GroupMaterials(SubSeq(objects, 1, Len(objects) - 1))
         \o [g \in 1..Len(objects[Len(objects)].groups) |->
                objects[Len(objects)].groups[g].material_name]

(***************************************************************************)
(* C12.  In a returned parse each group's bound material name is the name  *)
(* given by the last `usemtl` line seen since the group's accumulator was  *)
(* started, absent if there was none.                                      *)
(***************************************************************************)
C12_GroupMaterialIsLastUsemtl ==
    Returned => GroupMaterials(Objects) = RefGroupMaterials(lines)

\* A `usemtl` line commits no group and no object.
ReadsUsemtlLine ==
    IF lines' = lines THEN FALSE
    ELSE IF IsSkipped(lines'[Len(lines')]) THEN FALSE
    ELSE Keyword(lines'[Len(lines')]) = KwUsemtl

C12_UsemtlStep ==
    ReadsUsemtlLine =>
        /\ complete_groups' = complete_groups
        /\ complete_objects' = complete_objects
        /\ group_buffer'.material_name = FirstOpt(Data(lines'[Len(lines')]))

C12_UsemtlCommitsNothing == [][C12_UsemtlStep]_vars

(***************************************************************************)
(* Vertex conversion: the loop `for face in faces` that fills `vertices`   *)
(* and `indices` in Model::from_group (src/src/model.rs), Model::from_obj  *)
(* (src/derky/src/application/model.rs) and the vertex mapper of load_obj  *)
(* (src/derky-d3d11/src/application/model.rs).  A face is given by its     *)
(* number of vertices; index values stay far below the u32 range.          *)
(***************************************************************************)
TriMappers == {"from_group", "from_obj", "load_obj"}

\* A strip instead of a fan: the anchor moves with i.
FanTriangle_strip(mapper, vertex_base, i) ==
    IF mapper = "load_obj"
    THEN <<vertex_base + i, vertex_base + i + 2, vertex_base + i + 1>>
    ELSE <<vertex_base + i, vertex_base + i + 1, vertex_base + i + 2>>

\* The three indices.push(..) of one iteration of `for i in 0..(len - 2)`.
FanTriangle(mapper, vertex_base, i) ==
    IF mapper = "load_obj"
    THEN <<vertex_base, vertex_base + i + 2, vertex_base + i + 1>>
    ELSE <<vertex_base, vertex_base + i + 1, vertex_base + i + 2>>

\* for i in from..(len - 2): indices.push x 3
RECURSIVE FanIndices(_, _, _, _)
FanIndices(mapper, vertex_base, len, from) ==
    IF from >= len - 2 THEN <<>>
    ELSE FanTriangle(mapper, vertex_base, from)
         \o FanIndices(mapper, vertex_base, len, from + 1)

\* One iteration of `for face in faces` for a face of len vertices.  With
\* len < 2 the usize subtraction `len - 2` overflows: a panic when overflow
\* checks are on; otherwise the range ends near usize::MAX and the pushes
\* run until allocation fails and the process aborts.
ConvertFace(mapper, len) ==
    /\ tri_status = "converting"
    /\ Len(tri_faces) < MaxTriFaces
    /\ tri_mapper \in {"none", mapper}
    /\ tri_mapper' = mapper
    /\ tri_faces' = Append(tri_faces, len)
    /\ tri_vertices' = tri_vertices + len
    /\ \E c \in BuildSettings(len < 2) :
          /\ overflow_checks' = c
          /\ IF len < 2
             THEN /\ tri_status' = (IF c = "on" THEN "panicked" ELSE "aborted")
                  /\ UNCHANGED tri_indices
             ELSE /\ tri_indices' = tri_indices \o FanIndices(mapper, tri_vertices, len, 0)
                  /\ UNCHANGED tri_status
    /\ UNCHANGED <<wcObjVars, wcVars, buildVars, visitVars, envVars, loopVars, lateVars>>

(***************************************************************************)
(* SpecTri: any of the conversion loops over faces of 0..MaxFaceLen        *)
(* vertices.                                                               *)
(***************************************************************************)
NextTri == \E m \in TriMappers : \E len \in 0..MaxFaceLen : ConvertFace(m, len)

SpecTri == Init /\ [][NextTri]_vars

\* Sum of f[k] for k in 1..n.
RECURSIVE SumUpTo(_, _)
SumUpTo(f, n) == IF n = 0 THEN 0 ELSE SumUpTo(f, n - 1) + f[n]

TrianglesOf(len) == IF len >= 2 THEN len - 2 ELSE 0

(***************************************************************************)
(* C13.  A converted face with K >= 3 vertices contributes exactly K - 2   *)
(* triangles to the index list; the i-th consists of the face's vertex 0   *)
(* and its vertices i+1 and i+2 in either winding order, and together the  *)
(* triangles use every vertex of the face.                                 *)
(***************************************************************************)
C13_FanTriangulation ==
    tri_status = "converting" =>
        LET count == [j \in 1..Len(tri_faces) |-> TrianglesOf(tri_faces[j])] IN
        /\ Len(tri_indices) = 3 * SumUpTo(count, Len(tri_faces))
        /\ \A j \in 1..Len(tri_faces) :
              LET K == tri_faces[j]
                  base == SumUpTo(tri_faces, j - 1)
                  start == 3 * SumUpTo(count, j - 1)
              IN  K >= 3 =>
                    /\ \A i \in 0..(K - 3) :
                          /\ tri_indices[start + 3 * i + 1] = base
                          /\ {tri_indices[start + 3 * i + 2], tri_indices[start + 3 * i + 3]}
                                = {base + i + 1, base + i + 2}
                    /\ {tri_indices[start + n] : n \in 1..(3 * (K - 2))}
                          = base..(base + K - 1)

\* The left-handed mapper has converted a triangle and then a quadrilateral.
C13_Witness ==
    /\ tri_status = "converting"
    /\ tri_mapper = "load_obj"
    /\ Len(tri_faces) >= 2
    /\ tri_faces[1] = 3
    /\ tri_faces[2] = 4
    /\ Len(tri_indices) = 9

(***************************************************************************)
(* Model build.  Model::load_obj of src/derky/src/model.rs maps the parsed *)
(* materials, then walks objects, groups and `group.faces().group_by(|f|   *)
(* f.1)`; Model::from_obj of src/derky/src/application/model.rs converts   *)
(* the materials, collects the faces of all groups, sorts them by material *)
(* and groups the sorted list.  A face of the parse result is a record     *)
(* [id, material]: its ordinal in the file and its material index f.1.     *)
(***************************************************************************)
BuildVariants == {"load_obj", "from_obj"}

\* A group_by that also joins faces whose key was seen in an earlier group.
RECURSIVE GroupByFrom_by_key(_, _, _)
GroupByFrom_by_key(faces, i, runs) ==
    IF i > Len(faces) THEN runs
    ELSE LET hit == {r \in 1..Len(runs) : runs[r].key = faces[i].material} IN
         IF hit /= {}
         THEN LET r == CHOOSE x \in hit : TRUE IN
              GroupByFrom_by_key(faces, i + 1,
                  [runs EXCEPT ![r].faces = Append(@, faces[i])])
         ELSE GroupByFrom_by_key(faces, i + 1,
                  Append(runs, [key |-> faces[i].material, faces |-> <<faces[i]>>]))

\* itertools group_by(|f| f.1): consecutive faces with equal keys form a group.
RECURSIVE GroupByFrom(_, _, _)
GroupByFrom(faces, i, runs) ==
    IF i > Len(faces) THEN runs
    ELSE IF runs /= <<>> /\ runs[Len(runs)].key = faces[i].material
    THEN GroupByFrom(faces, i + 1,
             [runs EXCEPT ![Len(runs)].faces = Append(@, faces[i])])
    ELSE GroupByFrom(faces, i + 1,
             Append(runs, [key |-> faces[i].material, faces |-> <<faces[i]>>]))

GroupBy(faces) == GroupByFrom(faces, 1, <<>>)

\* for group in object.into_groups(): the groups' runs, one after another.
RECURSIVE RunsOfGroups(_)
RunsOfGroups(groups) ==
    IF groups = <<>> THEN <<>>
    ELSE GroupBy(Head(groups)) \o RunsOfGroups(Tail(groups))

\* for object in wf_objects: the vertex_mapper invocations of load_obj, in order.
RECURSIVE RunsOfObjects(_)
RunsOfObjects(objects) ==
    IF objects = <<>> THEN <<>>
    ELSE RunsOfGroups(Head(objects).groups) \o RunsOfObjects(Tail(objects))

\* objects.iter().flat_map(|o| o.groups().iter().flat_map(|g| g.faces())).collect()
RECURSIVE FlatFacesOfGroups(_)
FlatFacesOfGroups(groups) ==
    IF groups = <<>> THEN <<>> ELSE Head(groups) \o FlatFacesOfGroups(Tail(groups))

RECURSIVE FlatFaces(_)
FlatFaces(objects) ==
    IF objects = <<>> THEN <<>>
    ELSE FlatFacesOfGroups(Head(objects).groups) \o FlatFaces(Tail(objects))

\* Ord on Option<usize>: None < Some(0) < Some(1) < ...
KeyRank(o) == IF IsSome(o) THEN Unwrap(o) + 1 ELSE 0

\* faces.sort_by_key(|f| f.1): a stable sort.
RECURSIVE SortFromRank(_, _, _)
SortFromRank(faces, rank, top) ==
    IF rank > top THEN <<>>
    ELSE LET HasRank(f) == KeyRank(f.material) = rank IN
         SelectSeq(faces, HasRank) \o SortFromRank(faces, rank + 1, top)

SortByKey(faces) == SortFromRank(faces, 0, Len(faces) + MaxMaterials)

\* The face groups each variant hands to its conversion, in order.
BuildRuns(variant, wf) ==
    IF variant = "load_obj" THEN RunsOfObjects(wf.objects)
    ELSE GroupBy(SortByKey(FlatFaces(wf.objects)))

\* The opaque results of the mappers.
MappedMaterial(material) == [mapped |-> material]
MappedFaces(faces) == [faces |-> faces]

BuildStatusAfter(variant, wf, materials, groups) ==
    IF Len(materials) = Len(wf.materials) /\ Len(groups) = Len(BuildRuns(variant, wf))
    THEN "built" ELSE "building"

\* load_obj up to the first mapper call: read and parse the file, split().
LoadObj(variant, wfobj) ==
    /\ build_status = "idle"
    /\ build_variant' = variant
    /\ build_wf' = wfobj
    /\ build_status' = BuildStatusAfter(variant, wfobj, <<>>, <<>>)
    /\ UNCHANGED <<build_materials, vertex_groups, material_mapping, build_log>>
    /\ UNCHANGED <<objVars, wcVars, triVars, visitVars, envVars, loopVars, lateVars>>

\* read_to_string(..)? or parser.parse(..)? returns Err.
LoadObjFails ==
    /\ build_status = "idle"
    /\ build_variant' = "load_obj"
    /\ build_status' = "failed"
    /\ UNCHANGED <<build_wf, build_materials, vertex_groups, material_mapping, build_log>>
    /\ UNCHANGED <<objVars, wcVars, triVars, visitVars, envVars, loopVars, lateVars>>

\* A material mapping that walks the parsed materials from the last to the first.
MaterialMapper_reversed(ok) ==
    /\ build_status = "building"
    /\ Len(build_materials) < Len(build_wf.materials)
    /\ LET i == Len(build_wf.materials) - Len(build_materials) IN
       /\ build_log' = Append(build_log, [mapper |-> "material", index |-> i])
       /\ IF ok
          THEN /\ build_materials' =
                     Append(build_materials, MappedMaterial(build_wf.materials[i]))
               /\ build_status' = BuildStatusAfter(build_variant, build_wf,
                                                   build_materials', vertex_groups)
          ELSE /\ build_status' = "failed"
               /\ UNCHANGED build_materials
    /\ UNCHANGED <<build_variant, build_wf, vertex_groups, material_mapping>>
    /\ UNCHANGED <<objVars, wcVars, triVars, visitVars, envVars, loopVars, lateVars>>

\* One step of `.map(material_mapper).collect::<Result<..>>()` (load_obj) or of
\* the loop of convert_materials (from_obj); ok is whether the mapper succeeds.
MaterialMapper(ok) ==
    /\ build_status = "building"
    /\ Len(build_materials) < Len(build_wf.materials)
    /\ LET i == Len(build_materials) + 1 IN
       /\ build_log' = Append(build_log, [mapper |-> "material", index |-> i])
       /\ IF ok
          THEN /\ build_materials' =
                     Append(build_materials, MappedMaterial(build_wf.materials[i]))
               /\ build_status' = BuildStatusAfter(build_variant, build_wf,
                                                   build_materials', vertex_groups)
          ELSE /\ build_status' = "failed"
               /\ UNCHANGED build_materials
    /\ UNCHANGED <<build_variant, build_wf, vertex_groups, material_mapping>>
    /\ UNCHANGED <<objVars, wcVars, triVars, visitVars, envVars, loopVars, lateVars>>

\* One iteration of the innermost `for (material_index, faces) in ..` loop.
VertexMapper(ok) ==
    /\ build_status = "building"
    /\ Len(build_materials) = Len(build_wf.materials)
    /\ Len(vertex_groups) < Len(BuildRuns(build_variant, build_wf))
    /\ LET k == Len(vertex_groups) + 1
           run == BuildRuns(build_variant, build_wf)[k]
       IN  /\ build_log' = Append(build_log, [mapper |-> "vertex", index |-> k])
           /\ IF ok
              THEN /\ vertex_groups' = Append(vertex_groups, MappedFaces(run.faces))
                   /\ material_mapping' = Append(material_mapping, run.key)
                   /\ build_status' = BuildStatusAfter(build_variant, build_wf,
                                                       build_materials, vertex_groups')
              ELSE /\ build_status' = "failed"
                   /\ UNCHANGED <<vertex_groups, material_mapping>>
    /\ UNCHANGED <<build_variant, build_wf, build_materials>>
    /\ UNCHANGED <<objVars, wcVars, triVars, visitVars, envVars, loopVars, lateVars>>

(***************************************************************************)
(* Model::visit and Visit::next of src/derky/src/model.rs.                 *)
(***************************************************************************)
\* A Visit::next whose end test is `index > len`: it indexes one past the end.
VisitNext_past_end ==
    /\ build_status = "built"
    /\ build_variant = "load_obj"
    /\ visit_status = "running"
    /\ Len(visit_items) < Len(vertex_groups) + MaxExtraNext
    /\ IF visit_terminated
       THEN /\ visit_items' = Append(visit_items, None)
            /\ UNCHANGED <<visit_index, visit_terminated, visit_status>>
       ELSE IF visit_index > Len(vertex_groups)
       THEN /\ visit_terminated' = TRUE
            /\ visit_items' = Append(visit_items, None)
            /\ UNCHANGED <<visit_index, visit_status>>
       ELSE IF visit_index = Len(vertex_groups)
       THEN /\ visit_status' = "panicked"
            /\ UNCHANGED <<visit_index, visit_terminated, visit_items>>
       ELSE LET mi == material_mapping[visit_index + 1] IN
            /\ visit_items' =
                  Append(visit_items,
                         Some(<<vertex_groups[visit_index + 1],
                                IF IsSome(mi)
                                THEN Some(build_materials[Unwrap(mi) + 1])
                                ELSE None>>))
            /\ visit_index' = visit_index + 1
            /\ UNCHANGED <<visit_terminated, visit_status>>
    /\ UNCHANGED <<objVars, wcVars, triVars, buildVars, envVars, loopVars, lateVars>>

\* Visit::next, one call; indexing a boxed slice out of bounds panics.
VisitNext ==
    /\ build_status = "built"
    /\ build_variant = "load_obj"
    /\ visit_status = "running"
    /\ Len(visit_items) < Len(vertex_groups) + MaxExtraNext
    /\ IF visit_terminated
       THEN /\ visit_items' = Append(visit_items, None)
            /\ UNCHANGED <<visit_index, visit_terminated, visit_status>>
       ELSE IF visit_index >= Len(vertex_groups)
       THEN /\ visit_terminated' = TRUE
            /\ visit_items' = Append(visit_items, None)
            /\ UNCHANGED <<visit_index, visit_status>>
       ELSE LET mi == material_mapping[visit_index + 1] IN
            IF IsSome(mi) /\ Unwrap(mi) >= Len(build_materials)
            THEN /\ visit_status' = "panicked"
                 /\ UNCHANGED <<visit_index, visit_terminated, visit_items>>
            ELSE /\ visit_items' =
                       Append(visit_items,
                              Some(<<vertex_groups[visit_index + 1],
                                     IF IsSome(mi)
                                     THEN Some(build_materials[Unwrap(mi) + 1])
                                     ELSE None>>))
                 /\ visit_index' = visit_index + 1
                 /\ UNCHANGED <<visit_terminated, visit_status>>
    /\ UNCHANGED <<objVars, wcVars, triVars, buildVars, envVars, loopVars, lateVars>>

(***************************************************************************)
(* Parse results handed to a build: up to MaxMaterials materials; one      *)
(* object with one or two groups, or two objects with one group each, of   *)
(* up to MaxGroupFaces faces together; every face carries no material      *)
(* index or the index of a material.                                       *)
(***************************************************************************)
FaceTags(n) == {None} \cup {Some(i) : i \in 0..(n - 1)}

MkGroup(tags, before) ==
    [k \in 1..Len(tags) |-> [id |-> before + k, material |-> tags[k]]]

WfMaterials(n) == [i \in 1..n |-> [name |-> Num(i)]]

WfObjects(n) ==
    LET one == SeqsOf(FaceTags(n), 1, MaxGroupFaces)
        part == SeqsOf(FaceTags(n), 1, MaxGroupFaces - 1)
        two == {t \in part \X part : Len(t[1]) + Len(t[2]) <= MaxGroupFaces}
    IN  {<<[groups |-> <<MkGroup(t, 0)>>]>> : t \in one}
        \cup {<<[groups |-> <<MkGroup(t[1], 0), MkGroup(t[2], Len(t[1]))>>]>> : t \in two}
        \cup {<<[groups |-> <<MkGroup(t[1], 0)>>], [groups |-> <<MkGroup(t[2], Len(t[1]))>>]>> :
                 t \in two}

WfInputs ==
    UNION {{[objects |-> o, materials |-> WfMaterials(n)] : o \in WfObjects(n)} :
              n \in 0..MaxMaterials}

(***************************************************************************)
(* SpecBuild: a model build over any such parse result, with mappers that  *)
(* may fail, followed by a visit of the built model.                       *)
(***************************************************************************)
NextBuild ==
    \/ build_status = "idle" /\ \E v \in BuildVariants : \E w \in WfInputs : LoadObj(v, w)
    \/ LoadObjFails
    \/ \E ok \in BOOLEAN : MaterialMapper(ok)
    \/ \E ok \in BOOLEAN : VertexMapper(ok)
    \/ VisitNext

SpecBuild == Init /\ [][NextBuild]_vars

(***************************************************************************)
(* C14.  In a built model the vertex groups are, for each parsed Group in  *)
(* file order, its maximal runs of consecutive faces with the same         *)
(* material index: the faces of all vertex groups, one after another, are  *)
(* the faces of the file in file order; every vertex group is non-empty,   *)
(* lies within one parsed Group and is tagged with the material index of   *)
(* all its faces; two neighbouring vertex groups of the same parsed Group  *)
(* have different tags; each came from one invocation of the mapper.       *)
(***************************************************************************)
RECURSIVE ConcatFaces(_)
ConcatFaces(groups) ==
    IF groups = <<>> THEN <<>> ELSE Head(groups).faces \o ConcatFaces(Tail(groups))

\* The parsed Group, as <<object, group>>, that holds the face with this id.
OwnerOf(objects, id) ==
    CHOOSE og \in {<<o, g>> \in (1..Len(objects)) \X (1..MaxGroupFaces) :
                      IF g > Len(objects[o].groups) THEN FALSE
                      ELSE \E k \in 1..Len(objects[o].groups[g]) :
                              objects[o].groups[g][k].id = id} : TRUE

VertexGroupsAreRuns ==
    /\ ConcatFaces(vertex_groups) = FlatFaces(build_wf.objects)
    /\ Len(material_mapping) = Len(vertex_groups)
    /\ \A k \in 1..Len(vertex_groups) :
          LET faces == vertex_groups[k].faces IN
          /\ faces /= <<>>
          /\ \A f \in 1..Len(faces) :
                /\ faces[f].material = material_mapping[k]
                /\ OwnerOf(build_wf.objects, faces[f].id)
                      = OwnerOf(build_wf.objects, faces[1].id)
    /\ \A k \in 1..(Len(vertex_groups) - 1) :
          OwnerOf(build_wf.objects, vertex_groups[k].faces[1].id)
             = OwnerOf(build_wf.objects, vertex_groups[k + 1].faces[1].id)
          => material_mapping[k] /= material_mapping[k + 1]
    /\ Cardinality({i \in 1..Len(build_log) : build_log[i].mapper = "vertex"})
          = Len(vertex_groups)

C14_OneVertexGroupPerRun == build_status = "built" => VertexGroupsAreRuns

\* The same rule for Model::load_obj of src/derky/src/model.rs alone.
C14_LoadObjOneVertexGroupPerRun ==
    (build_status = "built" /\ build_variant = "load_obj") => VertexGroupsAreRuns

\* load_obj built a group whose faces are bound to material 0, 1, 0.
C14_LoadObjWitness ==
    /\ build_status = "built"
    /\ build_variant = "load_obj"
    /\ material_mapping = <<Some(0), Some(1), Some(0)>>

(***************************************************************************)
(* C15.  The material mapper is invoked once per parsed material, in the   *)
(* order of the materials list, and every such invocation precedes the     *)
(* first invocation of the vertex mapper; in a built model materials[i] is *)
(* the mapper's result for the i-th parsed material.                       *)
(***************************************************************************)
C15_MaterialsMappedFirstInOrder ==
    /\ \A i \in 1..Len(build_log) :
          IF build_log[i].mapper = "material"
          THEN build_log[i].index = i /\ i <= Len(build_wf.materials)
          ELSE /\ i > Len(build_wf.materials)
               /\ \A j \in 1..Len(build_wf.materials) : build_log[j].mapper = "material"
    /\ build_status = "built" =>
          /\ Len(build_materials) = Len(build_wf.materials)
          /\ \A i \in 1..Len(build_wf.materials) :
                /\ build_log[i] = [mapper |-> "material", index |-> i]
                /\ build_materials[i] = MappedMaterial(build_wf.materials[i])

\* load_obj built a model of two materials and two vertex groups.
C15_Witness ==
    /\ build_status = "built"
    /\ build_variant = "load_obj"
    /\ Len(build_materials) = 2
    /\ Len(vertex_groups) = 2
    /\ Len(build_log) = 4

(***************************************************************************)
(* SpecMinimal: Parser::parse of src/src/wavefront_obj/parser.rs over a    *)
(* small OBJ text, whose result Model::load_obj then builds and visits.    *)
(* wfobj.split() and the group faces with their material index belong to a *)
(* version of weavy_crab that is not in the source tree: material names    *)
(* are resolved to indices at build time, an unresolved name yields none.  *)
(***************************************************************************)
MaterialIndexOf(materials, name) ==
    IF IsSome(name) /\ \E i \in 1..Len(materials) : materials[i].name = Unwrap(name)
    THEN Some((CHOOSE i \in 1..Len(materials) :
                  /\ materials[i].name = Unwrap(name)
                  /\ \A j \in 1..(i - 1) : materials[j].name /= Unwrap(name)) - 1)
    ELSE None

RECURSIVE SplitGroups(_, _, _)
SplitGroups(groups, materials, before) ==
    IF groups = <<>> THEN <<>>
    ELSE LET g == Head(groups)
             tags == [k \in 1..Len(g.face_index_pairs) |->
                         MaterialIndexOf(materials, g.material_name)]
         IN  <<MkGroup(tags, before)>>
             \o SplitGroups(Tail(groups), materials, before + Len(tags))

RECURSIVE CountFaces(_)
CountFaces(groups) ==
    IF groups = <<>> THEN 0
    ELSE Len(Head(groups).face_index_pairs) + CountFaces(Tail(groups))

RECURSIVE SplitObjects(_, _, _)
SplitObjects(objects, materials, before) ==
    IF objects = <<>> THEN <<>>
    ELSE <<[groups |-> SplitGroups(Head(objects).groups, materials, before)]>>
         \o SplitObjects(Tail(objects), materials,
                         before + CountFaces(Head(objects).groups))

WfSplit(wfobj) ==
    [objects |-> SplitObjects(wfobj.objects, wfobj.materials, 0),
     materials |-> wfobj.materials]

\* `parser.parse(Cursor::new(obj_file), ())?` returned Ok: the build starts.
LoadParsed ==
    /\ status = "returned"
    /\ LoadObj("load_obj", WfSplit(Unwrap(result)))

\* `parser.parse(Cursor::new(obj_file), ())?` returned Err.
LoadParseFailed ==
    /\ status = "failed"
    /\ LoadObjFails

MinimalStream == <<MtlNewA, MtlKd>>
MinimalStreams == {MinimalStream, <<MtlNewA, MtlKd, MtlNewB, MtlKd>>}
MinimalResolved == {Ok(r) : r \in MinimalStreams} \cup {Err(IncludeError)}
Triangle == <<Num(1), Num(1), Num(1)>>
MinimalFaceData == {Triangle, <<Num(1), Num(2), Num(3)>>}

MinimalStep ==
    \/ \E r \in MinimalResolved : MaterialLibrary(<<<<"m">>>>, r)
    \/ UseMaterial(NameA)
    \/ \E d \in NextVertexData : Vertex(d)
    \/ \E d \in MinimalFaceData : Face(d)

NextMinimal ==
    \/ build_status = "idle" /\ MinimalStep
    \/ build_status = "idle" /\ EndOfFile
    \/ LoadParsed
    \/ LoadParseFailed
    \/ \E ok \in BOOLEAN : MaterialMapper(ok)
    \/ \E ok \in BOOLEAN : VertexMapper(ok)
    \/ VisitNext

SpecMinimal == Init /\ [][NextMinimal]_vars

\* The text read is `mtllib m`, `v 1 0 0`, `usemtl a` and `f 1 1 1`, with `v` and
\* `usemtl` before `f`; `m` holds `newmtl a` and one property.
LinesWith(keyword) == {i \in 1..Len(lines) : Keyword(lines[i]) = keyword}

MinimalFileRead ==
    /\ status = "returned"
    /\ Cardinality(LinesWith(KwMtllib)) = 1
    /\ includes = <<[path |-> <<"m">>, reader |-> Ok(MinimalStream)]>>
    /\ Cardinality(LinesWith(KwUsemtl)) = 1
    /\ Cardinality(LinesWith(<<"f">>)) = 1
    /\ \A u \in LinesWith(KwUsemtl) : \A f \in LinesWith(<<"f">>) :
          /\ u < f
          /\ lines[f] = <<<<"f">>>> \o Triangle
          /\ \E v \in LinesWith(<<"v">>) : v < f

(***************************************************************************)
(* C16.  A model built from a minimal OBJ text (one triangular face bound  *)
(* by `usemtl` to the one material, of at least one property, of its MTL   *)
(* text) has exactly one vertex group, material_mapping = [Some(0)] and    *)
(* exactly one material.                                                   *)
(***************************************************************************)
C16_MinimalModel ==
    (build_status = "built" /\ MinimalFileRead) =>
        /\ Len(vertex_groups) = 1
        /\ material_mapping = <<Some(0)>>
        /\ Len(build_materials) = 1

\* What the parser of src/src/wavefront_obj/parser.rs makes of it instead: one
\* vertex group bound to no material, and no material.
C16_MinimalModelAsParsed ==
    (build_status = "built" /\ MinimalFileRead) =>
        /\ Len(vertex_groups) = 1
        /\ material_mapping = <<None>>
        /\ build_materials = <<>>

C16_AsParsedWitness ==
    /\ build_status = "built"
    /\ MinimalFileRead
    /\ Len(visit_items) = 1

(***************************************************************************)
(* C17.  Model::visit yields exactly len(vertex_groups) items: the i-th is *)
(* vertex_groups[i] paired with the material at material_mapping[i], or    *)
(* with none when that entry is None; every later call yields None, and no *)
(* call reads out of bounds.                                               *)
(***************************************************************************)
ExpectedItem(i) ==
    Some(<<vertex_groups[i],
           IF material_mapping[i] = None THEN None
           ELSE Some(build_materials[Unwrap(material_mapping[i]) + 1])>>)

C17_VisitYieldsEachGroupOnce ==
    /\ visit_status = "running"
    /\ visit_items /= <<>> => build_status = "built"
    /\ \A i \in 1..Len(visit_items) :
          IF i <= Len(vertex_groups)
          THEN visit_items[i] = ExpectedItem(i)
          ELSE visit_items[i] = None
    /\ visit_index = IF Len(visit_items) <= Len(vertex_groups)
                     THEN Len(visit_items) ELSE Len(vertex_groups)
    /\ visit_terminated <=> Len(visit_items) > Len(vertex_groups)

\* Two groups were yielded, the first with no material and the second with the
\* second material, and two more calls returned None.
C17_Witness ==
    /\ Len(vertex_groups) = 2
    /\ material_mapping = <<None, Some(1)>>
    /\ Len(visit_items) = 4
    /\ visit_items[1] = Some(<<vertex_groups[1], None>>)
    /\ visit_items[2] = Some(<<vertex_groups[2], Some(build_materials[2])>>)
    /\ visit_items[4] = None
    /\ visit_terminated

(***************************************************************************)
(* Model::from_obj and Model::visit_groups of src/src/application/model.rs *)
(* (groups keep the material name, materials are a HashMap by name), and   *)
(* Model::visit_groups of src/derky/src/application/model.rs (face groups   *)
(* keep an Option<usize>, materials are a boxed slice).                    *)
(***************************************************************************)
RECURSIVE FlatGroups(_)
FlatGroups(objects) ==
    IF objects = <<>> THEN <<>> ELSE Head(objects).groups \o FlatGroups(Tail(objects))

\* HashMap::get on the inserts made so far: a later insert replaces an earlier one.
HashMapGet(inserts, key) ==
    LET hit == {i \in 1..Len(inserts) : inserts[i].name = key} IN
    IF hit = {} THEN None
    ELSE Some(inserts[CHOOSE i \in hit : \A j \in hit : j <= i].material)

\* group.material_name().unwrap_or("").to_string()
NameOrEmpty(name) == IF IsSome(name) THEN Unwrap(name) ELSE <<>>

FromObjStatusAfter(obj, materials, groups) ==
    IF Len(materials) = Len(obj.materials) /\ Len(groups) = Len(FlatGroups(obj.objects))
    THEN "built" ELSE "building"

\* from_obj up to its first fallible call.
from_obj(obj) ==
    /\ build_status = "idle"
    /\ build_variant' = "src::from_obj"
    /\ build_wf' = obj
    /\ build_status' = FromObjStatusAfter(obj, <<>>, <<>>)
    /\ UNCHANGED <<build_materials, vertex_groups, material_mapping, build_log>>
    /\ UNCHANGED <<objVars, wcVars, triVars, visitVars, envVars, loopVars, lateVars>>

\* One iteration of the loop of convert_materials; ok: the texture was loaded.
convert_materials(ok) ==
    /\ build_status = "building"
    /\ build_variant = "src::from_obj"
    /\ Len(build_materials) < Len(build_wf.materials)
    /\ LET i == Len(build_materials) + 1 IN
       /\ build_log' = Append(build_log, [mapper |-> "material", index |-> i])
       /\ IF ok
          THEN /\ build_materials' =
                     Append(build_materials,
                            [name |-> build_wf.materials[i].name,
                             material |-> MappedMaterial(build_wf.materials[i])])
               /\ build_status' = FromObjStatusAfter(build_wf, build_materials',
                                                     vertex_groups)
          ELSE /\ build_status' = "failed"
               /\ UNCHANGED build_materials
    /\ UNCHANGED <<build_variant, build_wf, vertex_groups, material_mapping>>
    /\ UNCHANGED <<objVars, wcVars, triVars, visitVars, envVars, loopVars, lateVars>>

\* One iteration of `for group in object.groups()`; ok: both buffers were made.
convert_group(ok) ==
    /\ build_status = "building"
    /\ build_variant = "src::from_obj"
    /\ Len(build_materials) = Len(build_wf.materials)
    /\ Len(vertex_groups) < Len(FlatGroups(build_wf.objects))
    /\ LET k == Len(vertex_groups) + 1
           group == FlatGroups(build_wf.objects)[k]
       IN  /\ build_log' = Append(build_log, [mapper |-> "vertex", index |-> k])
           /\ IF ok
              THEN /\ vertex_groups' =
                         Append(vertex_groups, MappedFaces(group.face_index_pairs))
                   /\ material_mapping' =
                         Append(material_mapping, NameOrEmpty(group.material_name))
                   /\ build_status' = FromObjStatusAfter(build_wf, build_materials,
                                                         vertex_groups')
              ELSE /\ build_status' = "failed"
                   /\ UNCHANGED <<vertex_groups, material_mapping>>
    /\ UNCHANGED <<build_variant, build_wf, build_materials>>
    /\ UNCHANGED <<objVars, wcVars, triVars, visitVars, envVars, loopVars, lateVars>>

\* A visit_groups that indexes the map: `&self.materials[&group.material_name]`.
visit_groups_indexing(ok) ==
    /\ build_status = "built"
    /\ build_variant = "src::from_obj"
    /\ visit_status = "running"
    /\ IF visit_index >= Len(vertex_groups)
       THEN /\ visit_status' = "returned"
            /\ UNCHANGED <<visit_index, visit_items>>
       ELSE LET material == HashMapGet(build_materials, material_mapping[visit_index + 1]) IN
            IF material = None
            THEN /\ visit_status' = "panicked"
                 /\ UNCHANGED <<visit_index, visit_items>>
            ELSE IF ok
            THEN /\ visit_items' =
                       Append(visit_items, Some(<<vertex_groups[visit_index + 1], material>>))
                 /\ visit_index' = visit_index + 1
                 /\ UNCHANGED visit_status
            ELSE /\ visit_status' = "visitor failed"
                 /\ UNCHANGED <<visit_index, visit_items>>
    /\ UNCHANGED visit_terminated
    /\ UNCHANGED <<objVars, wcVars, triVars, buildVars, envVars, loopVars, lateVars>>

\* visit_groups of src/src/application/model.rs: one iteration of its loop, or
\* its return; ok: the visitor returned Ok.
visit_groups(ok) ==
    /\ build_status = "built"
    /\ build_variant = "src::from_obj"
    /\ visit_status = "running"
    /\ IF visit_index >= Len(vertex_groups)
       THEN /\ visit_status' = "returned"
            /\ UNCHANGED <<visit_index, visit_items>>
       ELSE LET material == HashMapGet(build_materials, material_mapping[visit_index + 1]) IN
            IF ok
            THEN /\ visit_items' =
                       Append(visit_items, Some(<<vertex_groups[visit_index + 1], material>>))
                 /\ visit_index' = visit_index + 1
                 /\ UNCHANGED visit_status
            ELSE /\ visit_status' = "visitor failed"
                 /\ UNCHANGED <<visit_index, visit_items>>
    /\ UNCHANGED visit_terminated
    /\ UNCHANGED <<objVars, wcVars, triVars, buildVars, envVars, loopVars, lateVars>>

\* visit_groups of src/derky/src/application/model.rs.
VisitGroups(ok) ==
    /\ build_status = "built"
    /\ build_variant = "from_obj"
    /\ visit_status = "running"
    /\ IF visit_index >= Len(vertex_groups)
       THEN /\ visit_status' = "returned"
            /\ UNCHANGED <<visit_index, visit_items>>
       ELSE LET mi == material_mapping[visit_index + 1]
                material == IF IsSome(mi) /\ Unwrap(mi) < Len(build_materials)
                            THEN Some(build_materials[Unwrap(mi) + 1])
                            ELSE None
            IN  IF ok
                THEN /\ visit_items' =
                           Append(visit_items,
                                  Some(<<vertex_groups[visit_index + 1], material>>))
                     /\ visit_index' = visit_index + 1
                     /\ UNCHANGED visit_status
                ELSE /\ visit_status' = "visitor failed"
                     /\ UNCHANGED <<visit_index, visit_items>>
    /\ UNCHANGED visit_terminated
    /\ UNCHANGED <<objVars, wcVars, triVars, buildVars, envVars, loopVars, lateVars>>

(***************************************************************************)
(* SpecGroups: a parse result of up to MaxNamedGroups groups of one face,  *)
(* each bound to `a`, to `b` or to nothing, and of up to MaxMaterials      *)
(* materials named `a` or `b`, is built by either from_obj and visited.    *)
(***************************************************************************)
BoundNames == {<<"a">>, <<"b">>}

NamedGroup(name, k) ==
    [name |-> None, material_name |-> name, vertices |-> <<>>, texture_uvs |-> <<>>,
     normals |-> <<>>, face_index_pairs |-> <<k>>]

NamedMaterial(name) == [name |-> name, properties |-> MapInsert(EmptyMap, <<"K", "d">>, 1)]

NamedInputs ==
    {[objects |-> <<[name |-> None,
                     groups |-> [k \in 1..Len(gs) |-> NamedGroup(gs[k], k)]]>>,
      materials |-> [i \in 1..Len(ms) |-> NamedMaterial(ms[i])]] :
        gs \in SeqsOf({None} \cup {Some(n) : n \in BoundNames}, 1, MaxNamedGroups),
        ms \in SeqsOf(BoundNames, 0, MaxMaterials)}

NextGroups ==
    \/ build_status = "idle" /\ \E obj \in NamedInputs : from_obj(obj)
    \/ build_status = "idle" /\ \E obj \in NamedInputs : LoadObj("from_obj", WfSplit(obj))
    \/ \E ok \in BOOLEAN : convert_materials(ok)
    \/ \E ok \in BOOLEAN : convert_group(ok)
    \/ build_variant = "from_obj" /\ \E ok \in BOOLEAN : MaterialMapper(ok)
    \/ build_variant = "from_obj" /\ \E ok \in BOOLEAN : VertexMapper(ok)
    \/ \E ok \in BOOLEAN : visit_groups(ok)
    \/ \E ok \in BOOLEAN : VisitGroups(ok)

SpecGroups == Init /\ [][NextGroups]_vars

(***************************************************************************)
(* C18.  A group bound to a material name that no parsed material has is   *)
(* not an error: the build fails only when a conversion call fails, the    *)
(* visit fails only when the visitor fails, and the visit yields such a    *)
(* group with no material.                                                 *)
(***************************************************************************)
Unmatched(obj, group) ==
    /\ IsSome(group.material_name)
    /\ \A i \in 1..Len(obj.materials) : obj.materials[i].name /= Unwrap(group.material_name)

C18_UnmatchedNameYieldsNone ==
    /\ visit_status \in {"running", "returned", "visitor failed"}
    /\ build_status = "failed" <=>
          Len(build_log) > Len(build_materials) + Len(vertex_groups)
    /\ \A i \in 1..Len(visit_items) :
          /\ IsSome(visit_items[i])
          /\ Unwrap(visit_items[i])[1] = vertex_groups[i]
    /\ build_variant = "src::from_obj" =>
          \A i \in 1..Len(visit_items) :
             LET group == FlatGroups(build_wf.objects)[i] IN
             /\ vertex_groups[i] = MappedFaces(group.face_index_pairs)
             /\ Unmatched(build_wf, group) => Unwrap(visit_items[i])[2] = None
    /\ build_variant = "from_obj" =>
          \A obj \in NamedInputs : build_wf = WfSplit(obj) =>
             \A i \in 1..Len(visit_items) :
                \A k \in 1..Len(vertex_groups[i].faces) :
                   LET group == FlatGroups(obj.objects)[vertex_groups[i].faces[k].id] IN
                   Unmatched(obj, group) => Unwrap(visit_items[i])[2] = None

\* src/src: a group bound to `b` and a group bound to `a` were built with the one
\* material `a`, and the visit returned after yielding the first with no material.
C18_Witness ==
    /\ build_variant = "src::from_obj"
    /\ build_status = "built"
    /\ material_mapping = <<<<"b">>, <<"a">>>>
    /\ Len(build_materials) = 1
    /\ build_materials[1].name = <<"a">>
    /\ visit_status = "returned"
    /\ Len(visit_items) = 2
    /\ Unwrap(visit_items[1])[2] = None
    /\ Unwrap(visit_items[2])[2] /= None

\* src/derky: the same parse result, built and visited to the end.
C18_DerkyWitness ==
    /\ build_variant = "from_obj"
    /\ build_status = "built"
    /\ Len(build_materials) = 1
    /\ material_mapping = <<None, Some(0)>>
    /\ visit_status = "returned"
    /\ Len(visit_items) = 2
    /\ Unwrap(visit_items[1])[2] = None

(***************************************************************************)
(* Environment::update_luminance of src/derky/src/common/environment.rs.   *)
(* An f32 is modelled by an integer: the values are only copied.           *)
(***************************************************************************)
\* An update that copies `&self.luminance[..15]`: the history is not shifted.
update_luminance_no_shift(self_luminance, value) ==
    LET next_luminance == [i \in 1..16 |-> 0]
        copied == [i \in 1..16 |-> IF i <= 15 THEN self_luminance[i]
                                   ELSE next_luminance[i]]
    IN  [copied EXCEPT ![16] = value]

\* next_luminance[..15] = self.luminance[1..]; next_luminance[15] = luminance.
update_luminance(self_luminance, value) ==
    LET next_luminance == [i \in 1..16 |-> 0]
        copied == [i \in 1..16 |-> IF i <= 15 THEN self_luminance[i + 1]
                                   ELSE next_luminance[i]]
    IN  [copied EXCEPT ![16] = value]

UpdateLuminance(value) ==
    /\ Len(pushed) < MaxPushes
    /\ luminance' = update_luminance(luminance, value)
    /\ pushed' = Append(pushed, value)
    /\ UNCHANGED <<objVars, wcVars, triVars, buildVars, visitVars, loopVars, lateVars>>

\* The k-th argument: k itself, or, among the first MaxVaried calls, 0 or 50.
LuminanceValues(k) == {k} \cup (IF k <= MaxVaried THEN {0, 50} ELSE {})

NextEnv == \E value \in LuminanceValues(Len(pushed) + 1) : UpdateLuminance(value)

SpecEnv == Init /\ [][NextEnv]_vars

(***************************************************************************)
(* C19.  After n update_luminance calls on a fresh Environment the history *)
(* has exactly 16 slots: the last min(n, 16) arguments in call order at    *)
(* the end (the newest in slot 15), preceded by zeros; after the arguments *)
(* 1..=17 it is [2, 3, ..., 17].                                           *)
(***************************************************************************)
C19_LuminanceShiftRegister ==
    LET n == Len(pushed)
        m == IF n < 16 THEN n ELSE 16
    IN  /\ DOMAIN luminance = 1..16
        /\ \A i \in 1..16 :
              luminance[i] = IF i <= 16 - m THEN 0 ELSE pushed[n - 16 + i]
        /\ pushed = [k \in 1..17 |-> k] => luminance = [i \in 1..16 |-> i + 1]

\* 1..=17 were pushed: the first was evicted.
C19_Witness ==
    /\ pushed = [k \in 1..17 |-> k]
    /\ luminance[1] = 2
    /\ luminance[16] = 17

(***************************************************************************)
(* The frame loop: the closure given to event_loop.run by main of          *)
(* src/derky/src/main.rs, src/derky-d3d11/src/main.rs and src/src/main.rs. *)
(* Time is in nanoseconds.  ev is the event delivered, wait the time since *)
(* the previous invocation, lag the time between the two clock reads.      *)
(***************************************************************************)
frame_time == 33333333

LoopVariants == {"derky", "derky-d3d11", "src"}

\* event_loop.run(..)
Run(variant) ==
    /\ loop_variant = "none"
    /\ loop_variant' = variant
    /\ UNCHANGED <<now, last_at, frames, calls, control_flow>>
    /\ UNCHANGED <<objVars, wcVars, triVars, buildVars, visitVars, envVars, lateVars>>

CallRecord(delta, made, before, after) ==
    [delta |-> delta, frames_made |-> made, last_at_before |-> before,
     last_at_after |-> after]

\* A callback that resets last_at also when it skips the frame.
ThrottledCallback_resets(ev, wait, lag) ==
    /\ loop_variant \in {"derky", "derky-d3d11"}
    /\ control_flow /= "Exit"
    /\ Len(calls) < MaxCalls
    /\ LET delta == (now + wait) - last_at IN
       /\ control_flow' = IF ev = "CloseRequested" THEN "Exit" ELSE "Poll"
       /\ now' = now + wait + lag
       /\ last_at' = now'
       /\ IF delta < frame_time
          THEN UNCHANGED frames
          ELSE frames' = Append(frames, [delta |-> delta, at |-> now'])
       /\ calls' = Append(calls, CallRecord(delta, Len(frames') - Len(frames),
                                            last_at, last_at'))
    /\ UNCHANGED loop_variant
    /\ UNCHANGED <<objVars, wcVars, triVars, buildVars, visitVars, envVars, lateVars>>

\* derky and derky-d3d11: `let delta = last_at.elapsed(); if delta < frame_time
\* { return; } else { last_at = Instant::now(); }`, then tick, draw, present.
ThrottledCallback(ev, wait, lag) ==
    /\ loop_variant \in {"derky", "derky-d3d11"}
    /\ control_flow /= "Exit"
    /\ Len(calls) < MaxCalls
    /\ LET delta == (now + wait) - last_at IN
       /\ control_flow' = IF ev = "CloseRequested" THEN "Exit" ELSE "Poll"
       /\ IF delta < frame_time
          THEN /\ now' = now + wait
               /\ UNCHANGED <<last_at, frames>>
          ELSE /\ now' = now + wait + lag
               /\ last_at' = now'
               /\ frames' = Append(frames, [delta |-> delta, at |-> now'])
       /\ calls' = Append(calls, CallRecord(delta, Len(frames') - Len(frames),
                                            last_at, last_at'))
    /\ UNCHANGED loop_variant
    /\ UNCHANGED <<objVars, wcVars, triVars, buildVars, visitVars, envVars, lateVars>>

\* src/src: `let now = Instant::now(); let delta = now - last_at; last_at = now;`
\* then tick, draw and finish, on every invocation.
UnthrottledCallback(ev, wait) ==
    /\ loop_variant = "src"
    /\ control_flow /= "Exit"
    /\ Len(calls) < MaxCalls
    /\ LET delta == (now + wait) - last_at IN
       /\ now' = now + wait
       /\ last_at' = now'
       /\ frames' = Append(frames, [delta |-> delta, at |-> now'])
       /\ control_flow' = IF ev = "CloseRequested" THEN "Exit" ELSE "WaitUntil"
       /\ calls' = Append(calls, CallRecord(delta, Len(frames') - Len(frames),
                                            last_at, last_at'))
    /\ UNCHANGED loop_variant
    /\ UNCHANGED <<objVars, wcVars, triVars, buildVars, visitVars, envVars, lateVars>>

Events == {"CloseRequested", "Other"}
Waits == {0, 16666666, frame_time - 1, frame_time, 40000000}
Lags == {0, 1000}

NextLoop ==
    \/ \E variant \in LoopVariants : Run(variant)
    \/ \E ev \in Events, wait \in Waits, lag \in Lags : ThrottledCallback(ev, wait, lag)
    \/ \E ev \in Events, wait \in Waits : UnthrottledCallback(ev, wait)

SpecLoop == Init /\ [][NextLoop]_vars

(***************************************************************************)
(* C20.  An invocation of the event callback at which less than the target *)
(* interval (33,333,333 ns) has elapsed since the last processed frame     *)
(* performs no tick, draw pass or present and leaves the last-processed    *)
(* timestamp alone; skipped invocations are not queued: an invocation      *)
(* processes at most one frame.                                            *)
(***************************************************************************)
SkipsEarlyInvocations ==
    \A i \in 1..Len(calls) :
       /\ calls[i].frames_made <= 1
       /\ calls[i].delta < frame_time =>
             /\ calls[i].frames_made = 0
             /\ calls[i].last_at_after = calls[i].last_at_before

C20_EarlyInvocationIsSkipped == SkipsEarlyInvocations

\* The mains of src/derky and src/derky-d3d11 do skip; and their frames are the
\* invocations that came at least the interval after the last processed frame.
C20_ThrottledMainsSkip ==
    loop_variant \in {"derky", "derky-d3d11"} =>
        /\ SkipsEarlyInvocations
        /\ Len(frames) = Cardinality({i \in 1..Len(calls) : calls[i].delta >= frame_time})
        /\ \A k \in 1..Len(frames) : frames[k].delta >= frame_time

\* Two invocations were skipped, 16.7 ms and 33.3 ms after the start, and the
\* third, 50 ms after the start, was processed as one frame of that delta.
C20_ThrottledWitness ==
    /\ loop_variant = "derky"
    /\ Len(calls) = 3
    /\ calls[1].delta = 16666666
    /\ calls[2].delta = 16666666 + 16666666
    /\ calls[3].delta = 16666666 + 16666666 + 16666666
    /\ Len(frames) = 1
    /\ frames[1].delta = calls[3].delta

(***************************************************************************)
(* Rendering.  The Applications of src/src/application/mod.rs ("src"),     *)
(* src/derky/src/application/mod.rs ("derky"), src/derky-gl4 ("gl4") and   *)
(* src/derky-d3d11 ("d3d11"), driven frame by frame: tick, draw_geometry,  *)
(* draw_lighting, draw_composition, present.  The mains of src/src and     *)
(* src/derky are in the source; the callers of the gl4 and d3d11           *)
(* Applications are not, and are taken to make the same five calls.        *)
(* A scene is: per model the groups in visit order, TRUE for a group with  *)
(* a material; the number of directional and point lights; whether there   *)
(* is an image light.  A draw through glium returns a Result; fail_at = k  *)
(* makes the k-th draw of a pass fail, 0 none.                             *)
(***************************************************************************)
RenderVariants == {"src", "derky", "gl4", "d3d11"}

\* Model items in the order a geometry pass walks them.
GroupItems(name, groups) ==
    [i \in 1..Len(groups) |-> [kind |-> name, index |-> i, material |-> groups[i]]]

WithMaterial(item) == item.material

\* The `for` of gl4 returns from draw_geometry at the first group with no material.
RECURSIVE UntilNoMaterial(_)
UntilNoMaterial(items) ==
    IF items = <<>> THEN <<>>
    ELSE IF ~Head(items).material THEN <<>>
    ELSE <<Head(items)>> \o UntilNoMaterial(Tail(items))

\* The indexed draws draw_geometry issues when no draw fails.
GeometryItems(variant, sc) ==
    IF variant = "src" THEN <<[kind |-> "model", index |-> 0, material |-> TRUE]>>
    ELSE IF variant = "derky"
    THEN SelectSeq(GroupItems("room", sc.room), WithMaterial)
         \o SelectSeq(GroupItems("model", sc.model), WithMaterial)
    ELSE IF variant = "gl4"
    THEN UntilNoMaterial(GroupItems("room", sc.room) \o GroupItems("model", sc.model))
    ELSE GroupItems("model", sc.model) \o GroupItems("room", sc.room)

LightItems(kind, n) == [i \in 1..n |-> [kind |-> kind, index |-> i]]

\* The full-screen draws draw_lighting issues when no draw fails.
LightingItems(variant, sc) ==
    IF variant = "src" THEN LightItems("directional", 1)
    ELSE IF variant = "derky"
    THEN LightItems("ambient", 1) \o LightItems("point", sc.point)
    ELSE IF variant = "gl4"
    THEN LightItems("ambient", 1) \o LightItems("image", 1)
         \o LightItems("directional", sc.directional) \o LightItems("point", sc.point)
    ELSE LightItems("directional", sc.directional) \o LightItems("point", sc.point)
         \o LightItems("image", IF sc.image THEN 1 ELSE 0)

\* Resources and the shader-resource views made of them.
GBuffer == <<"g_buffer0", "g_buffer1", "g_buffer2", "g_buffer3">>
GBufferTexture == <<"g_buffer_texture0", "g_buffer_texture1", "g_buffer_texture2",
                    "g_buffer_texture3">>

ResourceOf(view) ==
    IF \E i \in 1..4 : GBufferTexture[i] = view
    THEN GBuffer[CHOOSE i \in 1..4 : GBufferTexture[i] = view]
    ELSE IF view = "g_buffer_ds_texture" THEN "g_buffer_ds"
    ELSE IF view = "lighting_buffer_texture" THEN "lighting_buffer"
    ELSE view

\* context.set_texture(slot, texture)
SetTexture(c, slot, view) == [c EXCEPT !.slots[slot] = view]

\* context.reset_render_targets(): no render target and no depth-stencil bound.
reset_render_targets(c) == [c EXCEPT !.targets = <<>>, !.depth = "null"]

\* A draw call: what is drawn, and the bindings and buffer contents it sees.
DrawCall(pass, item, c, acc, lum) ==
    [frame |-> frame_no, pass |-> pass, item |-> item, targets |-> c.targets,
     depth |-> c.depth, slots |-> c.slots, blend |-> c.blend, acc_before |-> acc,
     luminances |-> lum]

\* Sequences of BOOLEAN of length n.
BoolSeqs(n) == [1..n -> BOOLEAN]

\* The groups of the two models: at most MaxSceneGroups together.
SceneModels ==
    {rm \in UNION {BoolSeqs(a) \X BoolSeqs(b) : a \in 0..MaxSceneGroups, b \in 0..MaxSceneGroups} :
        Len(rm[1]) + Len(rm[2]) <= MaxSceneGroups}

\* tick moves point_lights[0], [1] and [2]: an Environment has at least three.
MinPoint == 3

Scenes(variant) ==
    IF variant = "src" THEN {[NoScene EXCEPT !.directional = 1]}
    ELSE IF variant = "derky"
    THEN {[room |-> rm[1], model |-> rm[2], directional |-> 0, point |-> p, image |-> FALSE] :
            rm \in SceneModels, p \in MinPoint..MaxPoint}
    ELSE IF variant = "gl4"
    THEN {[room |-> rm[1], model |-> rm[2], directional |-> d, point |-> p, image |-> TRUE] :
            rm \in SceneModels, d \in 0..MaxDirectional, p \in MinPoint..MaxPoint}
    ELSE {[room |-> rm[1], model |-> rm[2], directional |-> d, point |-> p, image |-> i] :
            rm \in SceneModels, d \in 0..MaxDirectional, p \in MinPoint..MaxPoint,
            i \in BOOLEAN}

\* Application::new, then the first iteration of the event loop.
CreateApplication(variant, sc) ==
    /\ render_variant = "none"
    /\ render_variant' = variant
    /\ scene' = sc
    /\ frame_pc' = "ready"
    /\ UNCHANGED <<frame_no, passes, draws, ctx, lighting_acc, cb_luminances,
                   next_luminance_buffer, prev_luminance>>
    /\ UNCHANGED <<earlyVars, toolVars>>

PassRecord(frame, pass) == [frame |-> frame, pass |-> pass]

\* The draws of a pass up to the one that fails.
Issued(items, fail_at) == IF fail_at = 0 THEN items ELSE SubSeq(items, 1, fail_at - 1)

\* A glium draw returns Result; the d3d11 context methods return nothing.
FailPoints(variant, items) == IF variant = "d3d11" THEN {0} ELSE 0..Len(items)

\* What a glium draw is given: its surface; textures travel in the uniforms.
SurfaceCtx(surface, depth) ==
    [targets |-> <<surface>>, depth |-> depth, slots |-> NoSlots, blend |-> "draw_parameters"]

\* tick run a second time in the frame.
Tick_twice ==
    /\ frame_pc = "ready"
    /\ frame_no < MaxFrames
    /\ frame_no' = frame_no + 1
    /\ passes' = passes \o <<PassRecord(frame_no + 1, "tick"), PassRecord(frame_no + 1, "tick")>>
    /\ frame_pc' = "ticked"
    /\ IF render_variant = "derky"
       THEN /\ prev_luminance' = next_luminance_buffer
            /\ next_luminance_buffer' = 0
            /\ UNCHANGED cb_luminances
       ELSE IF render_variant = "d3d11"
       THEN /\ cb_luminances' = luminance
            /\ UNCHANGED <<next_luminance_buffer, prev_luminance>>
       ELSE UNCHANGED <<cb_luminances, next_luminance_buffer, prev_luminance>>
    /\ UNCHANGED <<render_variant, scene, draws, ctx, lighting_acc>>
    /\ UNCHANGED <<earlyVars, toolVars>>

\* The start of a frame.  derky: prev_luminance = *mapped; *mapped = 0; then
\* app.tick(delta).  d3d11: environment.tick, then cb_view.update with
\* luminances: self.environment.luminance.
Tick ==
    /\ frame_pc = "ready"
    /\ frame_no < MaxFrames
    /\ frame_no' = frame_no + 1
    /\ passes' = Append(passes, PassRecord(frame_no + 1, "tick"))
    /\ frame_pc' = "ticked"
    /\ IF render_variant = "derky"
       THEN /\ prev_luminance' = next_luminance_buffer
            /\ next_luminance_buffer' = 0
            /\ UNCHANGED cb_luminances
       ELSE IF render_variant = "d3d11"
       THEN /\ cb_luminances' = luminance
            /\ UNCHANGED <<next_luminance_buffer, prev_luminance>>
       ELSE UNCHANGED <<cb_luminances, next_luminance_buffer, prev_luminance>>
    /\ UNCHANGED <<render_variant, scene, draws, ctx, lighting_acc>>
    /\ UNCHANGED <<earlyVars, toolVars>>

\* The uniforms of a draw that carry luminance.
Luminances(pass) ==
    IF render_variant = "d3d11" THEN cb_luminances
    ELSE IF render_variant = "derky" /\ pass = "composition" THEN <<prev_luminance>>
    ELSE <<>>

\* context.set_texture(0, texture) of draw_geometry: the group's texture or null.
GroupTexture(item) == IF item.material THEN "material_texture" ELSE "null"

\* draw_geometry.  d3d11: clear the G-buffer, bind it with its depth-stencil,
\* AlphaBlend, one draw per group, reset_render_targets.
DrawGeometry(fail_at) ==
    /\ frame_pc = "ticked"
    /\ LET items == GeometryItems(render_variant, scene)
           issued == Issued(items, fail_at)
           bound == IF render_variant = "d3d11"
                    THEN [ctx EXCEPT !.targets = GBuffer, !.depth = "g_buffer_ds",
                                     !.blend = "AlphaBlend"]
                    ELSE SurfaceCtx("frame_buffer", "depth")
           at(i) == IF render_variant = "d3d11"
                    THEN SetTexture(bound, 0, GroupTexture(issued[i]))
                    ELSE bound
           issued_calls == [i \in 1..Len(issued) |->
                        DrawCall("geometry", issued[i], at(i), lighting_acc,
                                 Luminances("geometry"))]
           last == IF issued = <<>> THEN bound ELSE at(Len(issued))
       IN  /\ draws' = draws \o issued_calls
           /\ ctx' = IF render_variant = "d3d11" THEN reset_render_targets(last) ELSE ctx
    /\ passes' = Append(passes, PassRecord(frame_no, "geometry"))
    /\ frame_pc' = IF fail_at = 0 THEN "geometry" ELSE "panicked"
    /\ UNCHANGED <<render_variant, scene, frame_no, lighting_acc, cb_luminances,
                   next_luminance_buffer, prev_luminance>>
    /\ UNCHANGED <<earlyVars, toolVars>>

\* RenderTarget::clear: ClearRenderTargetView(view, &[0.0, 0.0, 0.0, 1.0]).
RenderTargetClear == <<0, 0, 0, 1>>

\* lighting_buffer.clear_color_and_depth((0.0, 0.0, 0.0, 0.0), 1.0) of the glium mains.
GliumLightingClear == <<0, 0, 0, 0>>

Cleared(variant) ==
    [clear |-> IF variant = "d3d11" THEN RenderTargetClear ELSE GliumLightingClear,
     lights |-> <<>>]

\* for (i, buffer) in self.g_buffer_texture.iter().enumerate() { set_texture(i, Some(&buffer)) }
BindGBufferTextures(c) ==
    [c EXCEPT !.slots = [slot \in 0..5 |-> IF slot <= 3 THEN GBufferTexture[slot + 1]
                                           ELSE c.slots[slot]]]

\* for i in 0..4 { context.set_texture(i, None) }
UnbindGBufferTextures(c) ==
    [c EXCEPT !.slots = [slot \in 0..5 |-> IF slot <= 3 THEN "null" ELSE c.slots[slot]]]

\* draw_lighting.  d3d11: clear the lighting buffer, bind it alone, additive
\* blending, the G-buffer textures in slots 0..3, one draw per light (the image
\* light puts its texture in slot 3), reset_render_targets, slots 0..3 unbound.
DrawLighting(fail_at) ==
    /\ frame_pc = "geometry"
    /\ LET items == LightingItems(render_variant, scene)
           issued == Issued(items, fail_at)
           cleared == Cleared(render_variant)
           bound == IF render_variant = "d3d11"
                    THEN BindGBufferTextures(
                             [ctx EXCEPT !.targets = <<"lighting_buffer">>, !.depth = "null",
                                         !.blend = "TotallyAdditional"])
                    ELSE SurfaceCtx("lighting_buffer", "depth")
           at(i) == IF render_variant = "d3d11" /\ issued[i].kind = "image"
                    THEN SetTexture(bound, 3, "image_light_texture")
                    ELSE bound
           issued_calls == [i \in 1..Len(issued) |->
                        DrawCall("lighting", issued[i], at(i),
                                 [cleared EXCEPT !.lights = SubSeq(issued, 1, i - 1)],
                                 Luminances("lighting"))]
           last == IF issued = <<>> THEN bound ELSE at(Len(issued))
       IN  /\ draws' = draws \o issued_calls
           /\ lighting_acc' = [cleared EXCEPT !.lights = issued]
           /\ ctx' = IF render_variant = "d3d11"
                     THEN UnbindGBufferTextures(reset_render_targets(last))
                     ELSE ctx
    /\ passes' = Append(passes, PassRecord(frame_no, "lighting"))
    /\ frame_pc' = IF fail_at = 0 THEN "lighting" ELSE "panicked"
    /\ UNCHANGED <<render_variant, scene, frame_no, cb_luminances, next_luminance_buffer,
                   prev_luminance>>
    /\ UNCHANGED <<earlyVars, toolVars>>

\* The luminance a frame's composition can measure: never zero, never that of
\* another frame.
Readbacks(frame) == {2 * frame - 1, 2 * frame}

\* draw_composition that feeds the luminance to the uniform buffer at once.
DrawComposition_same_frame(failed, readback) ==
    /\ frame_pc = "lighting"
    /\ LET bound == IF render_variant = "d3d11"
                    THEN SetTexture(
                             SetTexture([ctx EXCEPT !.targets = <<"back_buffer">>,
                                                    !.depth = "depth_stencil",
                                                    !.blend = "AlphaBlend"],
                                        4, "g_buffer_ds_texture"),
                             5, "lighting_buffer_texture")
                    ELSE SurfaceCtx("target", "null")
           lum == IF render_variant = "d3d11" THEN update_luminance(luminance, readback)
                  ELSE IF render_variant = "derky" THEN <<readback>>
                  ELSE <<>>
           call == [DrawCall("composition", [kind |-> "screen", index |-> 1], bound,
                             lighting_acc, Luminances("composition"))
                    EXCEPT !.luminances = lum]
       IN  /\ draws' = IF failed THEN draws ELSE Append(draws, call)
           /\ ctx' = IF render_variant = "d3d11" THEN SetTexture(bound, 4, "null") ELSE ctx
    /\ IF failed
       THEN UNCHANGED <<envVars, next_luminance_buffer>>
       ELSE IF render_variant = "d3d11"
       THEN /\ luminance' = update_luminance(luminance, readback)
            /\ pushed' = Append(pushed, readback)
            /\ UNCHANGED next_luminance_buffer
       ELSE IF render_variant = "derky"
       THEN /\ next_luminance_buffer' = readback
            /\ UNCHANGED envVars
       ELSE UNCHANGED <<envVars, next_luminance_buffer>>
    /\ passes' = Append(passes, PassRecord(frame_no, "composition"))
    /\ frame_pc' = IF failed THEN "panicked" ELSE "composition"
    /\ UNCHANGED <<render_variant, scene, frame_no, lighting_acc, cb_luminances, prev_luminance>>
    /\ UNCHANGED <<objVars, wcVars, triVars, buildVars, visitVars, loopVars, toolVars>>

\* draw_composition.  d3d11: bind the back buffer, its depth-stencil and the
\* luminance buffer, AlphaBlend, slots 4 and 5, one draw, slot 4 unbound, then
\* environment.update_luminance(uav_luminance.get()[0]).  derky: one draw whose
\* shader writes the next_luminance buffer.
DrawComposition(failed, readback) ==
    /\ frame_pc = "lighting"
    /\ LET bound == IF render_variant = "d3d11"
                    THEN SetTexture(
                             SetTexture([ctx EXCEPT !.targets = <<"back_buffer">>,
                                                    !.depth = "depth_stencil",
                                                    !.blend = "AlphaBlend"],
                                        4, "g_buffer_ds_texture"),
                             5, "lighting_buffer_texture")
                    ELSE SurfaceCtx("target", "null")
           call == DrawCall("composition", [kind |-> "screen", index |-> 1], bound,
                            lighting_acc, Luminances("composition"))
       IN  /\ draws' = IF failed THEN draws ELSE Append(draws, call)
           /\ ctx' = IF render_variant = "d3d11" THEN SetTexture(bound, 4, "null") ELSE ctx
    /\ IF failed
       THEN UNCHANGED <<envVars, next_luminance_buffer>>
       ELSE IF render_variant = "d3d11"
       THEN /\ luminance' = update_luminance(luminance, readback)
            /\ pushed' = Append(pushed, readback)
            /\ UNCHANGED next_luminance_buffer
       ELSE IF render_variant = "derky"
       THEN /\ next_luminance_buffer' = readback
            /\ UNCHANGED envVars
       ELSE UNCHANGED <<envVars, next_luminance_buffer>>
    /\ passes' = Append(passes, PassRecord(frame_no, "composition"))
    /\ frame_pc' = IF failed THEN "panicked" ELSE "composition"
    /\ UNCHANGED <<render_variant, scene, frame_no, lighting_acc, cb_luminances, prev_luminance>>
    /\ UNCHANGED <<objVars, wcVars, triVars, buildVars, visitVars, loopVars, toolVars>>

\* target.finish().expect(..) of the glium mains; context.present of d3d11.
Present(ok) ==
    /\ frame_pc = "composition"
    /\ passes' = Append(passes, PassRecord(frame_no, "present"))
    /\ frame_pc' = IF ok THEN "ready" ELSE "panicked"
    /\ UNCHANGED <<render_variant, scene, frame_no, draws, ctx, lighting_acc, cb_luminances,
                   next_luminance_buffer, prev_luminance>>
    /\ UNCHANGED <<earlyVars, toolVars>>

NextRender ==
    \/ render_variant = "none"
       /\ \E variant \in RenderVariants : \E sc \in Scenes(variant) : CreateApplication(variant, sc)
    \/ Tick
    \/ frame_pc = "ticked"
       /\ \E fail_at \in FailPoints(render_variant, GeometryItems(render_variant, scene)) :
             DrawGeometry(fail_at)
    \/ frame_pc = "geometry"
       /\ \E fail_at \in FailPoints(render_variant, LightingItems(render_variant, scene)) :
             DrawLighting(fail_at)
    \/ frame_pc = "lighting"
       /\ \E failed \in (IF render_variant = "d3d11" THEN {FALSE} ELSE BOOLEAN) :
             \E readback \in Readbacks(frame_no) : DrawComposition(failed, readback)
    \/ \E ok \in (IF render_variant = "d3d11" THEN {TRUE} ELSE BOOLEAN) : Present(ok)

SpecRender == Init /\ [][NextRender]_vars

\* The five calls of a frame, in the order of the loop body.
FramePasses == <<"tick", "geometry", "lighting", "composition", "present">>

\* The passes logged for a frame, in log order.
PassesOf(frame) ==
    LET of_frame(r) == r.frame = frame
        logged == SelectSeq(passes, of_frame)
    IN  [i \in 1..Len(logged) |-> logged[i].pass]

\* A frame is processed once it was presented.
Processed(frame) == frame < frame_no \/ (frame = frame_no /\ frame_pc = "ready")

(***************************************************************************)
(* C21.  Every processed frame runs tick, the geometry pass, the lighting  *)
(* pass, the composition pass and present exactly once each, in that       *)
(* order, whatever the scene holds; a frame under way has run a prefix of  *)
(* that sequence.                                                          *)
(***************************************************************************)
C21_FrameRunsEachPassOnceInOrder ==
    \A frame \in 1..frame_no :
        LET ran == PassesOf(frame)
        IN  /\ Len(ran) <= 5
            /\ ran = SubSeq(FramePasses, 1, Len(ran))
            /\ Processed(frame) => ran = FramePasses

\* Two frames of the derky Application were presented, the scene having a
\* group with no material.
C21_Witness ==
    /\ render_variant = "derky"
    /\ frame_no = 2
    /\ frame_pc = "ready"
    /\ \E i \in 1..Len(scene.room) : ~scene.room[i]
    /\ PassesOf(2) = FramePasses

\* The history after the first n pushed values: update_luminance applied n times.
RECURSIVE HistoryAfter(_)
HistoryAfter(n) ==
    IF n = 0 THEN [i \in 1..16 |-> 0]
    ELSE update_luminance(HistoryAfter(n - 1), pushed[n])

\* The composition draws issued so far.
CompositionDraws ==
    LET is_composition(d) == d.pass = "composition"
    IN  SelectSeq(draws, is_composition)

(***************************************************************************)
(* C22.  The luminance read back at the end of frame N's composition is    *)
(* pushed into the Environment history only after that frame's draws and   *)
(* first reaches the shader uniforms in frame N+1: every draw of frame N   *)
(* sees the history as it stood at the end of frame N-1 (d3d11), and the   *)
(* composition of frame N is given the value measured in frame N-1, zero   *)
(* in the first frame (derky).                                             *)
(***************************************************************************)
C22_LuminanceReachesNextFrame ==
    /\ render_variant = "d3d11" =>
          /\ Len(pushed) = Len(CompositionDraws)
          /\ \A k \in 1..Len(pushed) : pushed[k] \in Readbacks(k)
          /\ \A k \in 1..Len(draws) :
                /\ draws[k].frame - 1 <= Len(pushed)
                /\ draws[k].luminances = HistoryAfter(draws[k].frame - 1)
                /\ \A i \in 1..16 : \A later \in draws[k].frame..MaxFrames :
                      draws[k].luminances[i] \notin Readbacks(later)
    /\ render_variant = "derky" =>
          \A k \in 1..Len(CompositionDraws) :
              LET d == CompositionDraws[k]
              IN  /\ d.frame = k
                  /\ IF k = 1 THEN d.luminances = <<0>>
                     ELSE d.luminances[1] \in Readbacks(k - 1)

\* d3d11: the draws of the second frame carry the first frame's luminance in
\* the newest slot of the history, and the second frame's was pushed.
C22_Witness ==
    /\ render_variant = "d3d11"
    /\ Len(pushed) = 2
    /\ \E k \in 1..Len(draws) :
          /\ draws[k].frame = 2
          /\ draws[k].pass = "geometry"
          /\ draws[k].luminances[16] = pushed[1]
          /\ pushed[1] # 0

\* derky: the composition of the second frame was given the first frame's value.
C22_DerkyWitness ==
    /\ render_variant = "derky"
    /\ Len(CompositionDraws) = 2
    /\ CompositionDraws[2].luminances[1] \in Readbacks(1)

\* The draws a pass of a frame issued, in issue order.
DrawsOf(frame, pass) ==
    LET wanted(d) == d.frame = frame /\ d.pass = pass
    IN  SelectSeq(draws, wanted)

\* The frame's pass returned Ok.
PassDone(frame, pass) ==
    \E k \in 1..Len(passes) :
        /\ passes[k] = PassRecord(frame, pass)
        /\ \/ k < Len(passes)
           \/ frame_pc # "panicked"

\* Ambient and image-based lights first, then directional, then point.
CategoryRank(kind) ==
    IF kind \in {"ambient", "image"} THEN 1 ELSE IF kind = "directional" THEN 2 ELSE 3

InCategoryOrder(items) ==
    \A i, j \in 1..Len(items) :
        i < j => CategoryRank(items[i].item.kind) <= CategoryRank(items[j].item.kind)

\* One draw per light: each light of the scene once, nothing else.
OneDrawPerLight(items) ==
    LET count(kind) == Cardinality({i \in 1..Len(items) : items[i].item.kind = kind})
    IN  /\ count("directional") = scene.directional
        /\ count("point") = (IF render_variant = "src" THEN 0 ELSE scene.point)
        /\ count("image") = (IF scene.image THEN 1 ELSE 0)
        /\ count("ambient") = (IF render_variant \in {"derky", "gl4"} THEN 1 ELSE 0)
        /\ \A i, j \in 1..Len(items) : items[i].item = items[j].item => i = j

(***************************************************************************)
(* C23.  The lighting pass issues exactly one full-screen draw per light,  *)
(* ambient and image-based lights first, then the directional lights,      *)
(* then the point lights.                                                  *)
(***************************************************************************)
C23_LightsDrawnInCategoryOrder ==
    \A frame \in 1..frame_no :
        /\ InCategoryOrder(DrawsOf(frame, "lighting"))
        /\ PassDone(frame, "lighting") => OneDrawPerLight(DrawsOf(frame, "lighting"))

\* The Applications other than derky-d3d11 draw in that order, and every
\* Application draws each light once.
C23_OrderExceptD3d11 ==
    \A frame \in 1..frame_no :
        /\ render_variant # "d3d11" => InCategoryOrder(DrawsOf(frame, "lighting"))
        /\ PassDone(frame, "lighting") => OneDrawPerLight(DrawsOf(frame, "lighting"))

\* gl4 drew ambient, image, a directional and the point lights of a frame.
C23_OrderWitness ==
    /\ render_variant = "gl4"
    /\ scene.directional = 1
    /\ PassDone(1, "lighting")
    /\ Len(DrawsOf(1, "lighting")) = 3 + scene.point

\* The order in which draw_geometry walks the two models.
ModelRank(kind) ==
    IF render_variant = "d3d11" THEN (IF kind = "model" THEN 1 ELSE 2)
    ELSE (IF kind = "room" THEN 1 ELSE 2)

GroupsOf(kind) == IF kind = "room" THEN scene.room ELSE scene.model

\* Each group that has a material is drawn by exactly one draw, no group is
\* drawn twice, and the draws follow the models' and the groups' order.
EveryPairDrawnOnce(items) ==
    /\ \A kind \in {"room", "model"} : \A i \in 1..Len(GroupsOf(kind)) :
          GroupsOf(kind)[i] =>
              Cardinality({k \in 1..Len(items) :
                  items[k].item.kind = kind /\ items[k].item.index = i}) = 1
    /\ \A k, l \in 1..Len(items) :
          k < l =>
              \/ ModelRank(items[k].item.kind) < ModelRank(items[l].item.kind)
              \/ /\ items[k].item.kind = items[l].item.kind
                 /\ items[k].item.index < items[l].item.index

(***************************************************************************)
(* C24.  A geometry pass issues exactly one indexed draw per vertex-group  *)
(* and material pair of every model, the models in registration order and  *)
(* the groups in visit order; a group with no usable material does not     *)
(* keep the groups and models after it from being drawn.                   *)
(***************************************************************************)
C24_EveryGroupDrawnOnce ==
    \A frame \in 1..frame_no :
        (render_variant # "src" /\ PassDone(frame, "geometry"))
            => EveryPairDrawnOnce(DrawsOf(frame, "geometry"))

\* The derky and d3d11 Applications do so.
C24_ExceptGl4 ==
    \A frame \in 1..frame_no :
        (render_variant \in {"derky", "d3d11"} /\ PassDone(frame, "geometry"))
            => EveryPairDrawnOnce(DrawsOf(frame, "geometry"))

\* derky skipped a group with no material and drew the one after it.
C24_SkipWitness ==
    /\ render_variant = "derky"
    /\ scene.room = <<FALSE, TRUE>>
    /\ PassDone(1, "geometry")
    /\ Len(DrawsOf(1, "geometry")) = 1
    /\ DrawsOf(1, "geometry")[1].item.index = 2

\* blend_states of Application::new: the colour and the alpha BlendPair.
BlendPair(source, destination) ==
    [source |-> source, destination |-> destination, operation |-> "Add"]

blend_states(kind) ==
    IF kind = "AlphaBlend"
    THEN [color |-> BlendPair("SourceAlpha", "OneMinusSourceAlpha"), alpha |-> BlendPair("One", "Zero")]
    ELSE IF kind = "TotallyAdditional"
    THEN [color |-> BlendPair("One", "One"), alpha |-> BlendPair("One", "One")]
    ELSE [color |-> BlendPair("default", "default"), alpha |-> BlendPair("default", "default")]

\* The lighting buffer alone is bound, with no depth buffer, and blending adds.
BoundAloneAdditive(d) ==
    /\ d.targets = <<"lighting_buffer">>
    /\ d.depth = "null"
    /\ blend_states(d.blend) = [color |-> BlendPair("One", "One"), alpha |-> BlendPair("One", "One")]

(***************************************************************************)
(* C25.  At the start of every lighting pass, before the first light is    *)
(* drawn, the lighting buffer holds zero in every channel, colour and      *)
(* alpha, and is the only bound draw target, with no depth buffer; with    *)
(* One/One blending its content after the pass is the sum of that frame's  *)
(* lights only.                                                            *)
(***************************************************************************)
C25_LightingStartsFromZero ==
    render_variant = "d3d11" =>
        \A frame \in 1..frame_no :
            LET ds == DrawsOf(frame, "lighting")
            IN  /\ \A k \in 1..Len(ds) :
                      /\ BoundAloneAdditive(ds[k])
                      /\ ds[k].acc_before.clear = <<0, 0, 0, 0>>
                      /\ ds[k].acc_before.lights = [i \in 1..(k - 1) |-> ds[i].item]
                /\ (frame = frame_no /\ PassDone(frame, "lighting")) =>
                      /\ lighting_acc.clear = <<0, 0, 0, 0>>
                      /\ lighting_acc.lights = [i \in 1..Len(ds) |-> ds[i].item]

\* Apart from the cleared alpha the claim holds: the buffer is cleared to
\* (0, 0, 0, 1), bound alone with no depth, blended One/One, and holds the
\* frame's lights only.
C25_ClearedToOpaqueBlack ==
    render_variant = "d3d11" =>
        \A frame \in 1..frame_no :
            LET ds == DrawsOf(frame, "lighting")
            IN  /\ \A k \in 1..Len(ds) :
                      /\ BoundAloneAdditive(ds[k])
                      /\ ds[k].acc_before.clear = <<0, 0, 0, 1>>
                      /\ ds[k].acc_before.lights = [i \in 1..(k - 1) |-> ds[i].item]
                /\ (frame = frame_no /\ PassDone(frame, "lighting")) =>
                      /\ lighting_acc.clear = <<0, 0, 0, 1>>
                      /\ lighting_acc.lights = [i \in 1..Len(ds) |-> ds[i].item]

\* The second frame's lighting pass of d3d11 has drawn its lights.
C25_SecondPassWitness ==
    /\ render_variant = "d3d11"
    /\ frame_no = 2
    /\ frame_pc = "lighting"
    /\ Len(DrawsOf(2, "lighting")) >= 3
    /\ lighting_acc.lights = [i \in 1..Len(DrawsOf(2, "lighting")) |-> DrawsOf(2, "lighting")[i].item]

\* The resources a draw writes: its render targets and its depth-stencil.
Outputs(d) == {d.targets[i] : i \in 1..Len(d.targets)} \cup ({d.depth} \ {"null"})

\* The slot of the draw holds a view of a resource the draw writes.
ReadsOutput(d, slot) == d.slots[slot] # "null" /\ ResourceOf(d.slots[slot]) \in Outputs(d)

(***************************************************************************)
(* C28.  At every draw call of the geometry, lighting and composition      *)
(* passes of any frame, no texture bound to a pixel-shader input slot is   *)
(* a view of a resource bound as render target or depth-stencil; the       *)
(* lighting buffer's view is not bound while the next frame's lighting     *)
(* pass draws into the lighting buffer.                                    *)
(***************************************************************************)
C28_NoInputIsAnOutput ==
    render_variant = "d3d11" =>
        \A k \in 1..Len(draws) : \A slot \in 0..5 : ~ReadsOutput(draws[k], slot)

\* It holds for the slots the passes unbind (0 to 4), and for slot 5 in the
\* first frame.
C28_UnboundSlotsAreSafe ==
    render_variant = "d3d11" =>
        \A k \in 1..Len(draws) : \A slot \in 0..5 :
            ReadsOutput(draws[k], slot) =>
                /\ slot = 5
                /\ draws[k].frame >= 2
                /\ draws[k].pass = "lighting"

\* The first frame of d3d11 was drawn with the G-buffer textures as inputs.
C28_FirstFrameWitness ==
    /\ render_variant = "d3d11"
    /\ frame_no = 1
    /\ frame_pc = "composition"
    /\ \E k \in 1..Len(draws) :
          /\ draws[k].pass = "lighting"
          /\ draws[k].slots[0] = "g_buffer_texture0"
    /\ ctx.slots[5] = "lighting_buffer_texture"

(***************************************************************************)
(* COM reference counting: ComPtr of src/derky/src/d3d11/com_support.rs    *)
(* and the texture of a RenderTarget with the Textures create_texture      *)
(* makes of it.  The count is that of the ID3D11Texture2D.                 *)
(***************************************************************************)
RenderTargetHolder == 0

ComCall(holder, call) == [holder |-> holder, call |-> call]

\* A clone that copies the pointer without AddRef.
ComPtrClone_no_addref(count) == count

\* impl Clone for ComPtr: unknown.AddRef(); ComPtr(self.0)
ComPtrClone(count) == count + 1

\* impl Drop for ComPtr: unknown.Release()
ComPtrDrop(count) == count - 1

\* RenderTarget::create: CreateTexture2D hands out the texture with one reference,
\* owned by the ComPtr `texture`; when CreateRenderTargetView fails, `?`
\* returns and drops it.
CreateRenderTarget(view_ok) ==
    /\ com_holders[RenderTargetHolder] = "none"
    /\ IF view_ok
       THEN /\ com_refcount' = 1
            /\ com_holders' = [com_holders EXCEPT ![RenderTargetHolder] = "alive"]
            /\ com_log' = com_log
            /\ UNCHANGED com_freed
       ELSE /\ com_refcount' = ComPtrDrop(1)
            /\ com_holders' = [com_holders EXCEPT ![RenderTargetHolder] = "failed"]
            /\ com_log' = Append(com_log, ComCall(RenderTargetHolder, "Release"))
            /\ com_freed' = (ComPtrDrop(1) = 0)
    /\ UNCHANGED <<earlyVars, renderVars, roundVars, makeVars>>

\* RenderTarget::create_texture: self.texture.clone(), then Texture::create_view;
\* on Err the clone is dropped by `?`.
CreateTexture(view, view_ok) ==
    /\ com_holders[RenderTargetHolder] = "alive"
    /\ com_holders[view] = "none"
    /\ LET cloned == ComPtrClone(com_refcount)
       IN  IF view_ok
           THEN /\ com_refcount' = cloned
                /\ com_holders' = [com_holders EXCEPT ![view] = "alive"]
                /\ com_log' = Append(com_log, ComCall(view, "AddRef"))
                /\ UNCHANGED com_freed
           ELSE /\ com_refcount' = ComPtrDrop(cloned)
                /\ com_holders' = [com_holders EXCEPT ![view] = "failed"]
                /\ com_log' = com_log \o <<ComCall(view, "AddRef"), ComCall(view, "Release")>>
                /\ com_freed' = (com_freed \/ ComPtrDrop(cloned) <= 0)
    /\ UNCHANGED <<earlyVars, renderVars, roundVars, makeVars>>

\* A RenderTarget or a Texture goes out of scope: its ComPtr field is dropped.
DropHolder(holder) ==
    /\ com_holders[holder] = "alive"
    /\ com_refcount' = ComPtrDrop(com_refcount)
    /\ com_holders' = [com_holders EXCEPT ![holder] = "dropped"]
    /\ com_log' = Append(com_log, ComCall(holder, "Release"))
    /\ com_freed' = (com_freed \/ ComPtrDrop(com_refcount) <= 0)
    /\ UNCHANGED <<earlyVars, renderVars, roundVars, makeVars>>

NextCom ==
    \/ \E view_ok \in BOOLEAN : CreateRenderTarget(view_ok)
    \/ \E view \in 1..MaxViews : \E view_ok \in BOOLEAN : CreateTexture(view, view_ok)
    \/ \E holder \in 0..MaxViews : DropHolder(holder)

SpecCom == Init /\ [][NextCom]_vars

Alive == {h \in 0..MaxViews : com_holders[h] = "alive"}

\* How often the holder has made the call.
ComCalls(holder, call) ==
    Cardinality({k \in 1..Len(com_log) : com_log[k] = ComCall(holder, call)})

(***************************************************************************)
(* C26.  The texture behind a RenderTarget stays alive, its reference      *)
(* count above zero, as long as the RenderTarget or any Texture made of    *)
(* it is alive, whatever the order of the drops; every holder releases     *)
(* its reference exactly once, and the count returns to zero only when     *)
(* all holders are gone.                                                   *)
(***************************************************************************)
C26_TextureOutlivesItsHolders ==
    /\ Alive # {} => (com_refcount > 0 /\ ~com_freed)
    /\ com_refcount = Cardinality(Alive)
    /\ \A h \in 0..MaxViews :
          /\ ComCalls(h, "Release") = (IF com_holders[h] \in {"dropped", "failed"} THEN 1 ELSE 0)
          /\ h # RenderTargetHolder =>
                ComCalls(h, "AddRef") = (IF com_holders[h] = "none" THEN 0 ELSE 1)
    /\ com_freed => (Alive = {} /\ com_holders[RenderTargetHolder] # "none")

\* The RenderTarget was dropped before two of its Textures, one of which is
\* still alive and keeps the texture.
C26_Witness ==
    /\ com_holders[RenderTargetHolder] = "dropped"
    /\ com_holders[1] = "dropped"
    /\ com_holders[2] = "alive"
    /\ com_refcount = 1
    /\ com_log[1] = ComCall(1, "AddRef")
    /\ com_log[3] = ComCall(RenderTargetHolder, "Release")

\* Every holder is gone and the texture was destroyed.
C26_AllDroppedWitness ==
    /\ \A h \in 0..MaxViews : com_holders[h] = "dropped"
    /\ com_refcount = 0
    /\ com_freed

(***************************************************************************)
(* The rounding helper `round` of RgbaImageData::resize_to_power_of_2      *)
(* (src/derky/src/texture.rs), on a target whose usize has 64 bits.  Its   *)
(* results are powers of two and are kept as exponents: 1 << 34 is 34.     *)
(***************************************************************************)
UsizeBits == 64

\* usize::count_ones
RECURSIVE count_ones(_)
count_ones(x) == IF x = 0 THEN 0 ELSE (x % 2) + count_ones(x \div 2)

\* Number of binary digits of x.
RECURSIVE BitLength(_)
BitLength(x) == IF x = 0 THEN 0 ELSE 1 + BitLength(x \div 2)

\* usize::leading_zeros
leading_zeros(x) == UsizeBits - BitLength(x)

\* fn round(x: usize) -> usize.  `32 - x.leading_zeros()` is a u32
\* subtraction: below zero it panics with overflow checks and wraps to
\* 2^32 + (32 - lz) without; `1 << n` with n >= 64 then panics or, without
\* checks, shifts by n mod 64 (and 2^32 is a multiple of 64).
round(x, checks) ==
    IF count_ones(x) = 1 THEN [tag |-> "Ok", exponent |-> BitLength(x) - 1]
    ELSE LET lz == leading_zeros(x)
         IN  IF 32 - lz >= 0 THEN [tag |-> "Ok", exponent |-> 32 - lz]
             ELSE IF checks = "on" THEN [tag |-> "Panic", exponent |-> 0]
             ELSE [tag |-> "Ok", exponent |-> (32 - lz) % 64]

RoundOverflows(x) == count_ones(x) # 1 /\ 32 - leading_zeros(x) < 0

\* round(self.width) or round(self.height).
Round(x) ==
    /\ round_status # "panicked"
    /\ round_x' = x
    /\ \E c \in BuildSettings(RoundOverflows(x)) :
          /\ overflow_checks' = c
          /\ LET r == round(x, c)
             IN  IF r.tag = "Panic"
                 THEN /\ round_status' = "panicked"
                      /\ UNCHANGED round_out
                 ELSE /\ round_status' = "returned"
                      /\ round_out' = r.exponent
    /\ UNCHANGED <<wcObjVars, wcVars, triVars, buildVars, visitVars, envVars, loopVars,
                   renderVars, comVars, makeVars>>

NextRound == \E x \in 1..MaxRoundX : Round(x)

SpecRound == Init /\ [][NextRound]_vars

RECURSIVE PowerOfTwo(_)
PowerOfTwo(e) == IF e = 0 THEN 1 ELSE 2 * PowerOfTwo(e - 1)

(***************************************************************************)
(* C27.  For every x >= 1 the rounding helper returns x when x is a power  *)
(* of two and otherwise the smallest power of two greater than x, with no  *)
(* overflow or underflow in its arithmetic at a 64-bit usize.              *)
(***************************************************************************)
C27_RoundsUpToPowerOfTwo ==
    /\ round_status # "panicked"
    /\ round_status = "returned" =>
          /\ ~RoundOverflows(round_x)
          /\ round_out <= 30
          /\ IF \E e \in 0..30 : PowerOfTwo(e) = round_x
             THEN PowerOfTwo(round_out) = round_x
             ELSE /\ PowerOfTwo(round_out) > round_x
                  /\ PowerOfTwo(round_out - 1) < round_x

\* A power of two is returned as it is, with no overflow.
C27_PowerOfTwoUnchanged ==
    (round_status = "returned" /\ count_ones(round_x) = 1) =>
        /\ PowerOfTwo(round_out) = round_x
        /\ ~RoundOverflows(round_x)

\* round(64) returned 64.
C27_PowerOfTwoWitness ==
    /\ round_status = "returned"
    /\ round_x = 64
    /\ round_out = 6

\* The index list holds three indices per triangle of every face, each below
\* the number of vertices emitted.
IndicesMatchFaces ==
    LET count == [j \in 1..Len(tri_faces) |-> TrianglesOf(tri_faces[j])]
    IN  /\ Len(tri_indices) = 3 * SumUpTo(count, Len(tri_faces))
        /\ \A n \in 1..Len(tri_indices) : tri_indices[n] < tri_vertices

(***************************************************************************)
(* C29.  For every face handed to a vertex mapper, with any number K >= 0  *)
(* of vertices, the triangulation terminates having emitted exactly        *)
(* 3 * max(0, K - 2) indices, each smaller than the number of vertices     *)
(* emitted so far; K - 2 is never evaluated below zero.                    *)
(***************************************************************************)
C29_TriangulationTerminates ==
    /\ tri_status = "converting"
    /\ (tri_mapper # "none") => overflow_checks = "unobserved"
    /\ IndicesMatchFaces

\* It does for faces of two or more vertices.
C29_TwoOrMoreVertices ==
    (\A j \in 1..Len(tri_faces) : tri_faces[j] >= 2) =>
        /\ tri_status = "converting"
        /\ IndicesMatchFaces

\* A face of two vertices was converted to no triangle, then a triangle.
C29_TwoVerticesWitness ==
    /\ tri_status = "converting"
    /\ tri_faces = <<2, 3>>
    /\ tri_indices = <<2, 3, 4>> \/ tri_indices = <<2, 4, 3>>

(***************************************************************************)
(* shake make: run_make of src/shake/src/subcommand/make.rs.  Times are    *)
(* whole numbers, SystemTime::UNIX_EPOCH is 0.  An entry of the dependency *)
(* file is the input's modification time with those of its recorded        *)
(* dependencies; the makefile has one output per entry, in the same order, *)
(* given by the output file's modification time, 0 when it does not exist. *)
(***************************************************************************)
UNIX_EPOCH == 0

\* fn get_latest_update: the latest `modified` of the files, from UNIX_EPOCH.
RECURSIVE get_latest_update(_)
get_latest_update(files) ==
    IF files = <<>> THEN UNIX_EPOCH
    ELSE LET latest == get_latest_update(SubSeq(files, 1, Len(files) - 1))
             modified == files[Len(files)]
         IN  IF modified > latest THEN modified ELSE latest

\* `files`: dependency.file, then dependency.dependencies.
FilesOf(dependency) == <<dependency.file>> \o dependency.dependencies

\* The first loop of run_make: `if updates.is_empty() { get_latest_update(..)? }
\* else { system_now }`, inserted under dependency.file.
Updates(input) ==
    [i \in 1..Len(input.dependencies) |->
        IF i = 1 THEN get_latest_update(FilesOf(input.dependencies[i]))
        ELSE input.system_now]

\* The second loop: `if *source_update > target_update { fxc.compile(..)? }`.
\* The outputs compiled, in order; fail_at = k makes the k-th compilation fail.
RECURSIVE CompiledFrom(_, _, _)
CompiledFrom(input, updates, i) ==
    IF i > Len(input.outputs) THEN <<>>
    ELSE IF updates[i] > input.outputs[i]
    THEN <<i>> \o CompiledFrom(input, updates, i + 1)
    ELSE CompiledFrom(input, updates, i + 1)

DependencySets == {<<>>} \cup {<<t>> : t \in 1..MaxTime}

MakeEntries == [file : 1..MaxTime, dependencies : DependencySets]

\* SystemTime::now() is later than the modification time of any file.
MakeInputs ==
    UNION {[dependencies : [1..n -> MakeEntries], outputs : [1..n -> 0..MaxTime],
            system_now : {MaxTime + 1}] : n \in 1..MaxEntries}

run_make(input, fail_at) ==
    /\ make_status = "idle"
    /\ make_input' = input
    /\ LET compiled == CompiledFrom(input, Updates(input), 1)
       IN  IF fail_at = 0 \/ fail_at > Len(compiled)
           THEN /\ make_compiled' = compiled
                /\ make_status' = "done"
           ELSE /\ make_compiled' = SubSeq(compiled, 1, fail_at)
                /\ make_status' = "failed"
    /\ UNCHANGED <<earlyVars, renderVars, comVars, roundVars>>

\* The process exits; the tool can be run again.
MakeExit ==
    /\ make_status # "idle"
    /\ make_status' = "idle"
    /\ make_input' = [dependencies |-> <<>>, outputs |-> <<>>, system_now |-> 0]
    /\ make_compiled' = <<>>
    /\ UNCHANGED <<earlyVars, renderVars, comVars, roundVars>>

NextMake ==
    \/ make_status = "idle"
       /\ \E input \in MakeInputs : \E fail_at \in 0..1 : run_make(input, fail_at)
    \/ MakeExit

SpecMake == Init /\ [][NextMake]_vars

WasCompiled(i) == \E k \in 1..Len(make_compiled) : make_compiled[k] = i

\* The newest of the input and its recorded dependencies is later than the output.
OutOfDate(i) ==
    get_latest_update(FilesOf(make_input.dependencies[i])) > make_input.outputs[i]

(***************************************************************************)
(* C30.  shake make recompiles an output exactly when the newest           *)
(* modification time among its input and the input's recorded              *)
(* dependencies is later than the output's (a missing output counting as   *)
(* oldest), for every entry, whatever its position in the dependency file. *)
(***************************************************************************)
C30_RecompilesExactlyOutOfDate ==
    make_status = "done" =>
        \A i \in 1..Len(make_input.outputs) : WasCompiled(i) <=> OutOfDate(i)

\* It does for the first entry, and no out-of-date output is left alone.
C30_FirstEntryExact ==
    make_status = "done" =>
        /\ Len(make_input.outputs) >= 1 => (WasCompiled(1) <=> OutOfDate(1))
        /\ \A i \in 1..Len(make_input.outputs) : OutOfDate(i) => WasCompiled(i)

\* The first output was newer than its input and its dependency and was left
\* alone; the second did not exist and was compiled.
C30_FirstEntryWitness ==
    /\ make_status = "done"
    /\ Len(make_input.outputs) = 2
    /\ make_input.dependencies[1] = [file |-> 1, dependencies |-> <<1>>]
    /\ make_input.outputs = <<2, 0>>
    /\ make_compiled = <<2>>

====
